---- MODULE Spec2Model ----
(***************************************************************************)
(* Idempotent creation of recipes, recipe ingredients and comments         *)
(* (recipes_app/views.py) over the relational store of                     *)
(* recipes_app/models.py.  Every HTTP request is a process that is handled *)
(* by its own worker; the workers share nothing but the store, so a        *)
(* handler is split into steps at its store accesses and the steps of      *)
(* different requests interleave freely.                                   *)
(***************************************************************************)
EXTENDS Integers, Sequences, FiniteSets, TLC

(***************************************************************************)
(* Bounds of the model.                                                    *)
(***************************************************************************)
\* number of requests handled in one run (each process handles one request)
NProcs == 3
\* number of registered users
NUsers == 2

Procs == 1..NProcs
Users == 1..NUsers
\* request.user of an unauthenticated request (AnonymousUser, id None)
Anon == 0

(***************************************************************************)
(* JSON values of a request body and of the envelope the key is derived    *)
(* from.  A value is tagged with its JSON/Python type; a string is the     *)
(* sequence of its tokens, the token " " being white space; a mapping is   *)
(* the sequence of its <<key, value>> pairs in insertion order.            *)
(***************************************************************************)
Null == <<"null">>
\* the key is not in request.data at all
Absent == <<"absent">>
Str(s) == <<"str", s>>
Num(n) == <<"int", n>>
Float(n) == <<"float", n>>
Bool(b) == <<"bool", b>>
\* decimal.Decimal
Dec(n) == <<"decimal", n>>
Map(pairs) == <<"map", pairs>>
\* f"/api/v1/recipes/{recipe_id}{suffix}"
PathOf(recipe_id, suffix) == <<"path", <<"/api/v1/recipes/", recipe_id, suffix>>>>
RecipesPath == <<"path", <<"/api/v1/recipes/">>>>

\* Python's str.strip() on a token sequence
RECURSIVE lstrip(_)
lstrip(s) == IF s # <<>> /\ Head(s) = " " THEN lstrip(Tail(s)) ELSE s
RECURSIVE rstrip(_)
rstrip(s) == IF s # <<>> /\ s[Len(s)] = " " THEN rstrip(SubSeq(s, 1, Len(s) - 1)) ELSE s
strip(s) == rstrip(lstrip(s))

\* Python's truth value of a JSON value: bool(v), also `v or default`
bool(v) ==
    CASE v[1] = "null" -> FALSE
      [] v[1] = "bool" -> v[2]
      [] v[1] = "str" -> v[2] # <<>>
      [] v[1] = "int" -> v[2] # 0
      [] v[1] = "float" -> v[2] # 0
      [] v[1] = "decimal" -> v[2] # 0
      [] v[1] = "map" -> v[2] # <<>>
      [] OTHER -> TRUE

\* (request.data.get(key) or "").strip(), for the string and null values
StripOrEmpty(v) == IF v[1] = "str" THEN strip(v[2]) ELSE <<>>

(***************************************************************************)
(* _canonical and make_request_uuid.                                       *)
(***************************************************************************)
\* the keys the handlers use, in Python's string order (what sort_keys uses)
KeyOrder == <<"body", "description", "extra", "is_public", "name", "path",
              "quantity", "recipe_id", "text", "title", "unit", "user_id">>
KeyRank(k) == CHOOSE i \in 1..Len(KeyOrder) : KeyOrder[i] = k

\* the pairs of a mapping (distinct keys) ordered by key
SortedPairs(pairs) ==
    LET n == Len(pairs)
        pos(i) == Cardinality({j \in 1..n : KeyRank(pairs[j][1]) < KeyRank(pairs[i][1])}) + 1
    IN [r \in 1..n |-> pairs[CHOOSE i \in 1..n : pos(i) = r]]

\* a mutation of the canonical form: json.dumps without sort_keys
canonical_unsorted(obj) == obj

\* json.dumps(obj, sort_keys=True, separators=(",", ":")): the canonical text
\* is represented by the value with every mapping's pairs in key order
RECURSIVE canonical(_)
canonical(obj) ==
    IF obj[1] = "map"
    THEN Map(SortedPairs([i \in 1..Len(obj[2]) |->
                            <<obj[2][i][1], canonical(obj[2][i][2])>>]))
    ELSE obj

IDEMP_NAMESPACE == "aaaaaaaa-bbbb-cccc-dddd-eeeeeeeeeeee"

\* uuid.uuid5(namespace, name): a hash of (namespace, name), taken to be
\* free of collisions, so it is represented by the pair it hashes
uuid5(namespace, name) == <<namespace, name>>

make_request_uuid(body, path, user_id, extra) ==
    LET payload == Map(<< <<"path", path>>,
                          <<"user_id", user_id>>,
                          <<"body", IF bool(body) THEN body ELSE Map(<<>>)>>,
                          <<"extra", IF bool(extra) THEN extra ELSE Map(<<>>)>> >>)
    IN uuid5(IDEMP_NAMESPACE, canonical(payload))

\* request_uuid of a row created outside the idempotent handlers (NULL)
NoUUID == <<>>

(***************************************************************************)
(* The store (recipes_app/models.py) and the requests in flight.           *)
(***************************************************************************)
VARIABLES
    Recipe,             \* rows [id, author, title, description, is_public, updated_at, request_uuid]
    Ingredient,         \* rows [id, name]
    RecipeIngredient,   \* rows [id, recipe, ingredient, quantity, unit, request_uuid]
    Comment,            \* rows [id, recipe, user, text, request_uuid]
    ShoppingList,       \* rows [id, user, title]
    ShoppingListItem,   \* rows [id, shopping_list, ingredient, recipe, quantity, unit, is_purchased]
    next_id,            \* the AutoField sequence of each table
    pc,                 \* where each request's handler stands
    request,            \* the request each process handles
    req_uuid,           \* handler local: the derived key
    ingredient,         \* handler local: id of the Ingredient got or created
    response,           \* the response each handler returned
    integrity_error,    \* history: the constraint an insert of the handler violated
    local,              \* handler locals of the shopping handlers
    inserted,           \* history: <<table, id, key>> of every row a create handler inserted
    removed             \* history: <<table, id>> of every row deleted

vars == <<Recipe, Ingredient, RecipeIngredient, Comment, ShoppingList, ShoppingListItem,
          next_id, pc, request, req_uuid, ingredient, response, integrity_error,
          local, inserted, removed>>
store == <<Recipe, Ingredient, RecipeIngredient, Comment, next_id>>
\* the tables of shopping_app/models.py
shopping == <<ShoppingList, ShoppingListItem>>

NoRequest == [kind |-> "none", user |-> Anon, recipe_id |-> 0, pk |-> 0, data |-> <<>>]
NoResponse == [status |-> 0, id |-> 0, body |-> <<>>]
\* the locals of add_recipe_by_title and of create before they are assigned;
\* list_created is the second value of get_or_create, created and updated are
\* the writes of the open transaction
NoLocal == [shopping_list |-> 0, list_created |-> FALSE, title |-> <<>>, recipe |-> 0,
            recipe_ings |-> <<>>, created |-> {}, updated |-> {}]

\* rows that exist before any request of the run: recipes entered through the
\* admin site, which sets no request_uuid
LegacyRecipes ==
    { [id |-> 1, author |-> 1, title |-> <<"Soup">>, description |-> <<"x">>,
       is_public |-> TRUE, updated_at |-> 0, request_uuid |-> NoUUID],
      [id |-> 2, author |-> 2, title |-> <<"Soup">>, description |-> <<"x">>,
       is_public |-> FALSE, updated_at |-> 0, request_uuid |-> NoUUID] }

InitStore ==
    /\ Recipe = LegacyRecipes
    /\ Ingredient = {}
    /\ RecipeIngredient = {}
    /\ Comment = {}
    /\ ShoppingList = {}
    /\ ShoppingListItem = {}
    /\ next_id = [Recipe |-> 3, Ingredient |-> 1, RecipeIngredient |-> 1, Comment |-> 1,
                  ShoppingList |-> 1, ShoppingListItem |-> 1]

InitRequests ==
    /\ pc = [p \in Procs |-> "idle"]
    /\ request = [p \in Procs |-> NoRequest]
    /\ req_uuid = [p \in Procs |-> NoUUID]
    /\ ingredient = [p \in Procs |-> 0]
    /\ response = [p \in Procs |-> NoResponse]
    /\ integrity_error = [p \in Procs |-> "none"]
    /\ local = [p \in Procs |-> NoLocal]
    /\ inserted = {}
    /\ removed = {}

Init == InitStore /\ InitRequests

(***************************************************************************)
(* Serializers (recipes_app/serializers.py).                               *)
(***************************************************************************)
IngredientSerializer(id) ==
    LET row == CHOOSE i \in Ingredient : i.id = id
    IN [id |-> row.id, name |-> row.name]

RecipeIngredientSerializer(ri) ==
    [id |-> ri.id, ingredient |-> IngredientSerializer(ri.ingredient),
     quantity |-> ri.quantity, unit |-> ri.unit, request_uuid |-> ri.request_uuid]

\* created_at is set once, when the row is inserted, and is left out
CommentSerializer(c) ==
    [id |-> c.id, text |-> c.text, author |-> [id |-> c.user],
     request_uuid |-> c.request_uuid]

RecipeSerializer(r) ==
    [id |-> r.id, author |-> r.author, title |-> r.title,
     description |-> r.description, is_public |-> r.is_public,
     updated_at |-> r.updated_at, request_uuid |-> r.request_uuid,
     recipe_ingredients |->
         {RecipeIngredientSerializer(ri) : ri \in {x \in RecipeIngredient : x.recipe = r.id}},
     comments |-> {CommentSerializer(c) : c \in {x \in Comment : x.recipe = r.id}}]

\* RecipeSerializer(data=request.data).is_valid(): title and description are
\* required non-blank strings (trimmed), is_public an optional boolean
BooleanTrue == {Bool(TRUE), Str(<<"true">>), Num(1)}
BooleanFalse == {Bool(FALSE), Str(<<"false">>), Num(0)}
RecipeIsValid(data) ==
    /\ data.title[1] = "str" /\ strip(data.title[2]) # <<>>
    /\ data.description[1] = "str" /\ strip(data.description[2]) # <<>>
    /\ data.is_public \in BooleanTrue \cup BooleanFalse \cup {Absent}
\* the validated data; a missing is_public takes the model's default=True
RecipeValidated(data) ==
    [title |-> strip(data.title[2]),
     description |-> strip(data.description[2]),
     is_public |-> IF data.is_public = Absent THEN TRUE
                   ELSE data.is_public \in BooleanTrue]

(***************************************************************************)
(* The store's access paths.                                               *)
(***************************************************************************)
\* a mutation of the store: request_uuid declared without unique=True
NoUniqueConstraint(table, key) == FALSE

\* unique=True on request_uuid: an insert of a row with this key violates it
UniqueViolation(table, key) == \E row \in table : row.request_uuid = key

\* a mutation of the lookup: it never finds the row
FilterNothing(table, key) == {}

\* Model.objects.filter(request_uuid=key)
FilterByUUID(table, key) == {row \in table : row.request_uuid = key}

\* the user may act at all
Authenticated(user) == user # Anon

\* requests are numbered in the order in which they arrive
MayArrive(p) == pc[p] = "idle" /\ (IF p = 1 THEN TRUE ELSE pc[p - 1] # "idle")

Respond(p, status, id, body) ==
    /\ response' = [response EXCEPT ![p] = [status |-> status, id |-> id, body |-> body]]
    /\ pc' = [pc EXCEPT ![p] = "done"]

\* request.data.get(key) and request.data.get(key, default)
Get(v) == IF v = Absent THEN Null ELSE v
GetDefault(v, default) == IF v = Absent THEN default ELSE v

\* QuerySet.first(): the row of the lowest id (the default ordering)
First(rows) == CHOOSE r \in rows : \A o \in rows : r.id <= o.id

Arrive(p, kind, user, recipe_id, pk, data) ==
    /\ MayArrive(p)
    /\ request' = [request EXCEPT ![p] =
           [kind |-> kind, user |-> user, recipe_id |-> recipe_id, pk |-> pk, data |-> data]]

(***************************************************************************)
(* RecipeViewSet.create: POST /api/v1/recipes/                             *)
(***************************************************************************)
RecipeBodyForUUID(data) ==
    Map(<< <<"title", Get(data.title)>>,
           <<"description", Get(data.description)>>,
           <<"is_public", Bool(bool(GetDefault(data.is_public, Bool(TRUE))))>> >>)

RecipeUUID(user, data) ==
    make_request_uuid(RecipeBodyForUUID(data), RecipesPath, Num(user), Null)

\* a mutation of the answer from the lookup: a serializer without the title
get_serializer_untitled(existing) == [RecipeSerializer(existing) EXCEPT !.title = <<>>]

\* self.get_serializer(existing).data (views.py 147)
get_serializer(existing) == RecipeSerializer(existing)

\* the authentication check, the key and the lookup (views.py 131-148)
RecipeCreateLookup(p, user, data) ==
    /\ Arrive(p, "recipe_create", user, 0, 0, data)
    /\ IF ~Authenticated(user)
       THEN Respond(p, 401, 0, <<>>) /\ UNCHANGED req_uuid
       ELSE LET key == RecipeUUID(user, data)
                existing == FilterByUUID(Recipe, key)
            IN /\ req_uuid' = [req_uuid EXCEPT ![p] = key]
               /\ IF existing # {}
                  THEN Respond(p, 200, First(existing).id, get_serializer(First(existing)))
                  ELSE pc' = [pc EXCEPT ![p] = "recipe_insert"] /\ UNCHANGED response
    /\ UNCHANGED <<shopping, local, store, ingredient, integrity_error, inserted, removed>>

\* a mutation of the row: author is writable and a body that does not carry
\* it leaves the recipe to the first user
NewRecipeOfFirstUser(p) ==
    LET data == request[p].data
    IN [id |-> next_id.Recipe, author |-> 1,
        title |-> RecipeValidated(data).title,
        description |-> RecipeValidated(data).description,
        is_public |-> RecipeValidated(data).is_public,
        updated_at |-> 0, request_uuid |-> req_uuid[p]]

\* serializer.save(author=request.user, request_uuid=req_uuid) (views.py 154)
NewRecipe(p) ==
    LET data == request[p].data
    IN [id |-> next_id.Recipe, author |-> request[p].user,
        title |-> RecipeValidated(data).title,
        description |-> RecipeValidated(data).description,
        is_public |-> RecipeValidated(data).is_public,
        updated_at |-> 0, request_uuid |-> req_uuid[p]]

\* a mutation of the transaction: the row is saved before the serializer is
\* asked whether it is valid, and stays
SaveThenRejectRecipe(p) ==
    /\ Recipe' = Recipe \cup {[id |-> next_id.Recipe, author |-> request[p].user, title |-> <<>>,
                                description |-> <<>>, is_public |-> TRUE, updated_at |-> 0,
                                request_uuid |-> req_uuid[p]]}
    /\ next_id' = [next_id EXCEPT !.Recipe = @ + 1]
    /\ Respond(p, 400, 0, <<>>)
    /\ UNCHANGED <<Ingredient, RecipeIngredient, Comment, inserted, integrity_error>>

\* serializer.is_valid(raise_exception=True) raises before serializer.save()
\* (views.py 152-154): the request ends with 400 and nothing is stored
RejectInvalidRecipe(p) ==
    Respond(p, 400, 0, <<>>) /\ UNCHANGED <<store, inserted, integrity_error>>

\* the transaction: validation and insert (views.py 150-155, 158-159)
RecipeCreateInsert(p) ==
    /\ pc[p] = "recipe_insert"
    /\ LET data == request[p].data
           row == NewRecipe(p)
       IN IF ~RecipeIsValid(data)
          THEN RejectInvalidRecipe(p)
          ELSE IF UniqueViolation(Recipe, req_uuid[p])
          THEN /\ pc' = [pc EXCEPT ![p] = "recipe_refetch"]
               /\ integrity_error' = [integrity_error EXCEPT ![p] = "unique"]
               /\ UNCHANGED <<store, response, inserted>>
          ELSE /\ Recipe' = Recipe \cup {row}
               /\ UNCHANGED integrity_error
               /\ next_id' = [next_id EXCEPT !.Recipe = @ + 1]
               /\ inserted' = inserted \cup {<<"Recipe", row.id, row.request_uuid>>}
               /\ Respond(p, 201, row.id, RecipeSerializer(row))
               /\ UNCHANGED <<Ingredient, RecipeIngredient, Comment>>
    /\ UNCHANGED <<shopping, local, request, req_uuid, ingredient, removed>>

\* except IntegrityError: Recipe.objects.get(request_uuid=req_uuid) (views.py 155-159)
RecipeCreateRefetch(p) ==
    /\ pc[p] = "recipe_refetch"
    /\ LET found == FilterByUUID(Recipe, req_uuid[p])
       IN IF Cardinality(found) = 1
          THEN Respond(p, 201, First(found).id, RecipeSerializer(First(found)))
          ELSE Respond(p, 500, 0, <<>>)
    /\ UNCHANGED <<shopping, local, store, request, req_uuid, ingredient, integrity_error, inserted, removed>>

(***************************************************************************)
(* RecipeViewSet.update / partial_update / destroy, on get_queryset        *)
(***************************************************************************)
\* get_queryset: the public recipes and the user's own
get_queryset(user) == {r \in Recipe : r.is_public \/ r.author = user}

\* the serializer's validation of an update; a PATCH may leave fields out
UpdateIsValid(data, partial) ==
    /\ IF data.title = Absent THEN partial
       ELSE data.title[1] = "str" /\ strip(data.title[2]) # <<>>
    /\ IF data.description = Absent THEN partial
       ELSE data.description[1] = "str" /\ strip(data.description[2]) # <<>>
    /\ data.is_public \in BooleanTrue \cup BooleanFalse \cup {Absent}

\* a mutation of the serializer: request_uuid is writable and an update that
\* does not carry it clears it
UpdatedClearingKey(r, data) ==
    [r EXCEPT !.title = IF data.title = Absent THEN @ ELSE strip(data.title[2]),
              !.description = IF data.description = Absent THEN @ ELSE strip(data.description[2]),
              !.is_public = IF data.is_public = Absent THEN @ ELSE data.is_public \in BooleanTrue,
              !.updated_at = @ + 1,
              !.request_uuid = NoUUID]

\* serializer.save() of an update: id, author and request_uuid are read-only
\* (serializers.py 40, 56) and keep their values
Updated(r, data) ==
    [r EXCEPT !.title = IF data.title = Absent THEN @ ELSE strip(data.title[2]),
              !.description = IF data.description = Absent THEN @ ELSE strip(data.description[2]),
              !.is_public = IF data.is_public = Absent THEN @ ELSE data.is_public \in BooleanTrue,
              !.updated_at = @ + 1]

\* PUT (partial = FALSE) and PATCH (partial = TRUE) /api/v1/recipes/{pk}/
RecipeUpdate(p, user, pk, data, partial) ==
    /\ Arrive(p, IF partial THEN "recipe_patch" ELSE "recipe_put", user, pk, pk, data)
    /\ LET found == {r \in get_queryset(user) : r.id = pk}
       IN IF ~Authenticated(user)
          THEN Respond(p, 401, 0, <<>>) /\ UNCHANGED store
          ELSE IF found = {}
          THEN Respond(p, 404, 0, <<>>) /\ UNCHANGED store
          ELSE IF ~UpdateIsValid(data, partial)
          THEN Respond(p, 400, 0, <<>>) /\ UNCHANGED store
          ELSE LET old == First(found)
                   new == Updated(old, data)
               IN /\ Recipe' = (Recipe \ {old}) \cup {new}
                  /\ Respond(p, 200, pk, RecipeSerializer(new))
                  /\ UNCHANGED <<Ingredient, RecipeIngredient, Comment, next_id>>
    /\ UNCHANGED <<shopping, local, req_uuid, ingredient, integrity_error, inserted, removed>>

\* a mutation of ShoppingListItem.recipe: on_delete=CASCADE
CASCADE(items, pk) == {i \in items : i.recipe # pk}

\* recipe = NULL
NoRecipe == 0
\* ShoppingListItem.recipe: on_delete=models.SET_NULL
SET_NULL(items, pk) ==
    {IF i.recipe = pk THEN [i EXCEPT !.recipe = NoRecipe] ELSE i : i \in items}

\* DELETE /api/v1/recipes/{pk}/; on_delete=CASCADE removes the recipe's
\* RecipeIngredient and Comment rows, SET_NULL keeps the shopping-list items
RecipeDestroy(p, user, pk) ==
    /\ Arrive(p, "recipe_delete", user, pk, pk, <<>>)
    /\ LET found == {r \in get_queryset(user) : r.id = pk}
           ris == {x \in RecipeIngredient : x.recipe = pk}
           cs == {x \in Comment : x.recipe = pk}
       IN IF ~Authenticated(user)
          THEN Respond(p, 401, 0, <<>>) /\ UNCHANGED <<store, removed, ShoppingListItem>>
          ELSE IF found = {}
          THEN Respond(p, 404, 0, <<>>) /\ UNCHANGED <<store, removed, ShoppingListItem>>
          ELSE /\ Recipe' = Recipe \ found
               /\ RecipeIngredient' = RecipeIngredient \ ris
               /\ Comment' = Comment \ cs
               /\ ShoppingListItem' = SET_NULL(ShoppingListItem, pk)
               /\ removed' = removed \cup {<<"Recipe", pk>>}
                                     \cup {<<"RecipeIngredient", x.id>> : x \in ris}
                                     \cup {<<"Comment", x.id>> : x \in cs}
               /\ Respond(p, 204, pk, <<>>)
               /\ UNCHANGED <<Ingredient, next_id>>
    /\ UNCHANGED <<ShoppingList, local, req_uuid, ingredient, integrity_error, inserted>>

(***************************************************************************)
(* Python's float() of a request value.                                    *)
(***************************************************************************)
Digits == <<"0", "1", "2", "3", "4", "5", "6", "7", "8", "9">>
IsDigit(c) == \E d \in 1..10 : Digits[d] = c
DigitValue(c) == (CHOOSE d \in 1..10 : Digits[d] = c) - 1
RECURSIVE Decimal(_)
Decimal(s) == IF s = <<>> THEN 0
              ELSE 10 * Decimal(SubSeq(s, 1, Len(s) - 1)) + DigitValue(s[Len(s)])

\* float(v) raises ValueError/TypeError for these values
FloatRaises(v) ==
    CASE v[1] = "str" -> strip(v[2]) = <<>> \/ \E i \in DOMAIN strip(v[2]) : ~IsDigit(strip(v[2])[i])
      [] v[1] \in {"int", "float", "bool"} -> FALSE
      [] OTHER -> TRUE
\* the number float(v) returns
float(v) ==
    CASE v[1] = "str" -> Decimal(strip(v[2]))
      [] v[1] = "bool" -> IF v[2] THEN 1 ELSE 0
      [] OTHER -> v[2]

(***************************************************************************)
(* RecipeIngredientView.post: POST /api/v1/recipes/{recipe_id}/ingredients/*)
(***************************************************************************)
IngredientUUID(user, recipe_id, data) ==
    make_request_uuid(
        Map(<< <<"name", Str(StripOrEmpty(Get(data.name)))>>,
               <<"quantity", Float(float(Get(data.quantity)))>>,
               <<"unit", Str(StripOrEmpty(Get(data.unit)))>> >>),
        PathOf(recipe_id, "/ingredients/"), Num(user),
        Map(<< <<"recipe_id", Num(recipe_id)>> >>))

\* a mutation of the author check: every user passes it
AnyoneIsAuthor(recipe, user) == TRUE

\* recipe.author != request.user does not hold (views.py 229, 311)
IsAuthor(recipe, user) == recipe.author = user

\* the recipe, the author check, the validation, the key and the lookup
\* (views.py 224-249)
IngredientPostLookup(p, user, recipe_id, data) ==
    /\ Arrive(p, "ingredient_add", user, recipe_id, 0, data)
    /\ LET recipe == {r \in Recipe : r.id = recipe_id}
           name == StripOrEmpty(Get(data.name))
           quantity == Get(data.quantity)
           unit == StripOrEmpty(Get(data.unit))
           key == IngredientUUID(user, recipe_id, data)
           existing == FilterByUUID(RecipeIngredient, key)
       IN IF ~Authenticated(user)
          THEN Respond(p, 401, 0, <<>>) /\ UNCHANGED req_uuid
          ELSE IF recipe = {}
          THEN Respond(p, 404, 0, <<>>) /\ UNCHANGED req_uuid
          ELSE IF ~IsAuthor(First(recipe), user)
          THEN Respond(p, 403, 0, <<>>) /\ UNCHANGED req_uuid
          ELSE IF name = <<>> \/ quantity = Null \/ unit = <<>>
          THEN Respond(p, 400, 0, <<>>) /\ UNCHANGED req_uuid
          ELSE IF FloatRaises(quantity)
          THEN Respond(p, 500, 0, <<>>) /\ UNCHANGED req_uuid
          ELSE /\ req_uuid' = [req_uuid EXCEPT ![p] = key]
               /\ IF existing # {}
                  THEN Respond(p, 200, First(existing).id,
                               RecipeIngredientSerializer(First(existing)))
                  ELSE /\ pc' = [pc EXCEPT ![p] = "ingredient_get_or_create"]
                       /\ UNCHANGED response
    /\ UNCHANGED <<shopping, local, store, ingredient, integrity_error, inserted, removed>>

\* a mutation of Ingredient.name: declared without unique=True
NameNotUnique(name) == FALSE

\* Ingredient.name is unique=True (models.py 24): an insert of a row with this
\* name violates the constraint
NameTaken(name) == \E i \in Ingredient : i.name = name

\* the get of Ingredient.objects.get_or_create(name=name) (views.py 251)
IngredientGetOrCreate(p) ==
    /\ pc[p] = "ingredient_get_or_create"
    /\ LET name == StripOrEmpty(Get(request[p].data.name))
           got == {i \in Ingredient : i.name = name}
       IN IF got # {}
          THEN /\ ingredient' = [ingredient EXCEPT ![p] = First(got).id]
               /\ pc' = [pc EXCEPT ![p] = "ingredient_insert"]
          ELSE /\ pc' = [pc EXCEPT ![p] = "ingredient_create"]
               /\ UNCHANGED ingredient
    /\ UNCHANGED <<shopping, local, store, request, req_uuid, response,
                   integrity_error, inserted, removed>>

\* the create of get_or_create, in autocommit: the row is committed at once;
\* when the insert violates unique, get_or_create gets the row that is there.
\* local.created keeps the row the request created
IngredientCreate(p) ==
    /\ pc[p] = "ingredient_create"
    /\ LET name == StripOrEmpty(Get(request[p].data.name))
           got == {i \in Ingredient : i.name = name}
           row == [id |-> next_id.Ingredient, name |-> name]
       IN IF NameTaken(name)
          THEN /\ ingredient' = [ingredient EXCEPT ![p] = First(got).id]
               /\ UNCHANGED <<Ingredient, next_id, local>>
          ELSE /\ Ingredient' = Ingredient \cup {row}
               /\ next_id' = [next_id EXCEPT !.Ingredient = @ + 1]
               /\ ingredient' = [ingredient EXCEPT ![p] = row.id]
               /\ local' = [local EXCEPT ![p].created = {row}]
    /\ pc' = [pc EXCEPT ![p] = "ingredient_insert"]
    /\ UNCHANGED <<shopping, Recipe, RecipeIngredient, Comment, request, req_uuid, response,
                   integrity_error, inserted, removed>>

\* the foreign key recipe: an insert that refers to a deleted recipe fails
\* with IntegrityError, like a violation of unique
ForeignKeyViolation(recipe_id) == ~\E r \in Recipe : r.id = recipe_id

\* RecipeIngredient.objects.create in its transaction (views.py 253-265)
IngredientPostInsert(p) ==
    /\ pc[p] = "ingredient_insert"
    /\ LET data == request[p].data
           row == [id |-> next_id.RecipeIngredient, recipe |-> request[p].recipe_id,
                   ingredient |-> ingredient[p],
                   quantity |-> float(Get(data.quantity)),
                   unit |-> StripOrEmpty(Get(data.unit)),
                   request_uuid |-> req_uuid[p]]
       IN IF \/ UniqueViolation(RecipeIngredient, req_uuid[p])
             \/ ForeignKeyViolation(request[p].recipe_id)
          THEN /\ pc' = [pc EXCEPT ![p] = "ingredient_refetch"]
               /\ integrity_error' = [integrity_error EXCEPT ![p] =
                      IF UniqueViolation(RecipeIngredient, req_uuid[p]) THEN "unique" ELSE "foreign_key"]
               /\ UNCHANGED <<store, response, inserted>>
          ELSE /\ RecipeIngredient' = RecipeIngredient \cup {row}
               /\ UNCHANGED integrity_error
               /\ next_id' = [next_id EXCEPT !.RecipeIngredient = @ + 1]
               /\ inserted' = inserted \cup {<<"RecipeIngredient", row.id, row.request_uuid>>}
               /\ Respond(p, 201, row.id, RecipeIngredientSerializer(row))
               /\ UNCHANGED <<Recipe, Ingredient, Comment>>
    /\ UNCHANGED <<shopping, local, request, req_uuid, ingredient, removed>>

\* except IntegrityError: RecipeIngredient.objects.get(request_uuid=req_uuid)
IngredientPostRefetch(p) ==
    /\ pc[p] = "ingredient_refetch"
    /\ LET found == FilterByUUID(RecipeIngredient, req_uuid[p])
       IN IF Cardinality(found) = 1
          THEN Respond(p, 201, First(found).id, RecipeIngredientSerializer(First(found)))
          ELSE Respond(p, 500, 0, <<>>)
    /\ UNCHANGED <<shopping, local, store, request, req_uuid, ingredient, integrity_error, inserted, removed>>

\* RecipeIngredientDetailView.delete:
\* DELETE /api/v1/recipes/{recipe_id}/ingredients/{ingredient_id}/
IngredientDelete(p, user, recipe_id, ingredient_id) ==
    /\ Arrive(p, "ingredient_delete", user, recipe_id, ingredient_id, <<>>)
    /\ LET recipe == {r \in Recipe : r.id = recipe_id}
           found == {x \in RecipeIngredient : x.id = ingredient_id /\ x.recipe = recipe_id}
       IN IF ~Authenticated(user)
          THEN Respond(p, 401, 0, <<>>) /\ UNCHANGED <<store, removed>>
          ELSE IF recipe = {}
          THEN Respond(p, 404, 0, <<>>) /\ UNCHANGED <<store, removed>>
          ELSE IF ~IsAuthor(First(recipe), user)
          THEN Respond(p, 403, 0, <<>>) /\ UNCHANGED <<store, removed>>
          ELSE IF found = {}
          THEN Respond(p, 404, 0, <<>>) /\ UNCHANGED <<store, removed>>
          ELSE /\ RecipeIngredient' = RecipeIngredient \ found
               /\ removed' = removed \cup {<<"RecipeIngredient", ingredient_id>>}
               /\ Respond(p, 204, ingredient_id, <<>>)
               /\ UNCHANGED <<Recipe, Ingredient, Comment, next_id>>
    /\ UNCHANGED <<shopping, local, req_uuid, ingredient, integrity_error, inserted>>

(***************************************************************************)
(* RecipeCommentView.post: POST /api/v1/recipes/{recipe_id}/comments/      *)
(***************************************************************************)
\* a mutation of the key: neither the path nor extra names the recipe
CommentUUIDUnscoped(user, recipe_id, data) ==
    make_request_uuid(Map(<< <<"text", Str(StripOrEmpty(Get(data.text)))>> >>),
                      RecipesPath, Num(user), Null)

CommentUUID(user, recipe_id, data) ==
    make_request_uuid(Map(<< <<"text", Str(StripOrEmpty(Get(data.text)))>> >>),
                      PathOf(recipe_id, "/comments/"), Num(user),
                      Map(<< <<"recipe_id", Num(recipe_id)>> >>))

\* the recipe, the authentication, the validation, the key and the lookup
\* (views.py 350-372)
CommentPostLookup(p, user, recipe_id, data) ==
    /\ Arrive(p, "comment_add", user, recipe_id, 0, data)
    /\ LET recipe == {r \in Recipe : r.id = recipe_id}
           text == StripOrEmpty(Get(data.text))
           key == CommentUUID(user, recipe_id, data)
           existing == FilterByUUID(Comment, key)
       IN IF ~Authenticated(user)
          THEN Respond(p, 401, 0, <<>>) /\ UNCHANGED req_uuid
          ELSE IF recipe = {}
          THEN Respond(p, 404, 0, <<>>) /\ UNCHANGED req_uuid
          ELSE IF text = <<>>
          THEN Respond(p, 400, 0, <<>>) /\ UNCHANGED req_uuid
          ELSE /\ req_uuid' = [req_uuid EXCEPT ![p] = key]
               /\ IF existing # {}
                  THEN Respond(p, 200, First(existing).id, CommentSerializer(First(existing)))
                  ELSE /\ pc' = [pc EXCEPT ![p] = "comment_insert"]
                       /\ UNCHANGED response
    /\ UNCHANGED <<shopping, local, store, ingredient, integrity_error, inserted, removed>>

\* Comment.objects.create in its transaction (views.py 374-385)
CommentPostInsert(p) ==
    /\ pc[p] = "comment_insert"
    /\ LET row == [id |-> next_id.Comment, recipe |-> request[p].recipe_id,
                   user |-> request[p].user,
                   text |-> StripOrEmpty(Get(request[p].data.text)),
                   request_uuid |-> req_uuid[p]]
       IN IF \/ UniqueViolation(Comment, req_uuid[p])
             \/ ForeignKeyViolation(request[p].recipe_id)
          THEN /\ pc' = [pc EXCEPT ![p] = "comment_refetch"]
               /\ integrity_error' = [integrity_error EXCEPT ![p] =
                      IF UniqueViolation(Comment, req_uuid[p]) THEN "unique" ELSE "foreign_key"]
               /\ UNCHANGED <<store, response, inserted>>
          ELSE /\ Comment' = Comment \cup {row}
               /\ UNCHANGED integrity_error
               /\ next_id' = [next_id EXCEPT !.Comment = @ + 1]
               /\ inserted' = inserted \cup {<<"Comment", row.id, row.request_uuid>>}
               /\ Respond(p, 201, row.id, CommentSerializer(row))
               /\ UNCHANGED <<Recipe, Ingredient, RecipeIngredient>>
    /\ UNCHANGED <<shopping, local, request, req_uuid, ingredient, removed>>

\* except IntegrityError: Comment.objects.get(request_uuid=req_uuid)
CommentPostRefetch(p) ==
    /\ pc[p] = "comment_refetch"
    /\ LET found == FilterByUUID(Comment, req_uuid[p])
       IN IF Cardinality(found) = 1
          THEN Respond(p, 201, First(found).id, CommentSerializer(First(found)))
          ELSE Respond(p, 500, 0, <<>>)
    /\ UNCHANGED <<shopping, local, store, request, req_uuid, ingredient, integrity_error, inserted, removed>>

(***************************************************************************)
(* Python's arithmetic on the numbers of the aggregation: a float and a    *)
(* decimal.Decimal do not mix, an int mixes with both.                     *)
(***************************************************************************)
TypeError == <<"TypeError">>
Mixes(a, b) == {a[1], b[1]} # {"float", "decimal"}
ResultType(a, b) ==
    IF "decimal" \in {a[1], b[1]} THEN "decimal"
    ELSE IF "float" \in {a[1], b[1]} THEN "float" ELSE "int"
\* a * b
mul(a, b) == IF Mixes(a, b) THEN <<ResultType(a, b), a[2] * b[2]>> ELSE TypeError
\* a + b
add(a, b) == IF Mixes(a, b) THEN <<ResultType(a, b), a[2] + b[2]>> ELSE TypeError
\* a or b
or(a, b) == IF bool(a) THEN a ELSE b

(***************************************************************************)
(* ShoppingListItemViewSet.add_recipe_by_title:                            *)
(* POST /api/v1/shopping-list/items/add-recipe-by-title/                   *)
(***************************************************************************)
\* the orders in which a query without ORDER BY may return the rows
RowOrders(rows) ==
    { s \in [1..Cardinality(rows) -> rows] : \A i, j \in 1..Cardinality(rows) : i # j => s[i] # s[j] }

\* AddRecipeByTitleSerializer: recipe_id an integer, title optional, multiply
\* an optional decimal
AddRecipeIsValid(data) ==
    /\ data.recipe_id[1] = "int"
    /\ data.title[1] \in {"absent", "str"}
    /\ data.multiply[1] \in {"absent", "int", "decimal"}

\* title = (custom_title or recipe.title).strip() or recipe.title
ListTitle(data, recipe) ==
    LET custom_title == IF data.title = Absent THEN Null ELSE Str(strip(data.title[2]))
        stripped == Str(strip(or(custom_title, Str(recipe.title))[2]))
    IN or(stripped, Str(recipe.title))[2]

\* multiply = ser.validated_data.get('multiply') or Decimal("1")
Multiply(data) ==
    or(IF data.multiply = Absent THEN Dec(1) ELSE Dec(data.multiply[2]), Dec(1))

\* the validation, Recipe.objects.get and the get of get_or_create
\* (shopping_app/views.py 162-174)
AddRecipeStart(p, user, data) ==
    /\ Arrive(p, "add_recipe", user, 0, 0, data)
    /\ LET recipe == {r \in Recipe : r.id = data.recipe_id[2]}
           title == ListTitle(data, First(recipe))
           lists == {l \in ShoppingList : l.user = user /\ l.title = title}
       IN IF ~Authenticated(user)
          THEN Respond(p, 401, 0, <<>>) /\ UNCHANGED local
          ELSE IF ~AddRecipeIsValid(data)
          THEN Respond(p, 400, 0, <<>>) /\ UNCHANGED local
          ELSE IF recipe = {}
          THEN Respond(p, 404, 0, <<>>) /\ UNCHANGED local
          ELSE IF Cardinality(lists) > 1
          THEN Respond(p, 500, 0, <<>>) /\ UNCHANGED local
          ELSE /\ local' = [local EXCEPT ![p] =
                      [NoLocal EXCEPT !.recipe = First(recipe).id, !.title = title,
                                      !.shopping_list = IF lists = {} THEN 0 ELSE First(lists).id]]
               /\ pc' = [pc EXCEPT ![p] = IF lists = {} THEN "add_recipe_list" ELSE "add_recipe_load"]
               /\ UNCHANGED response
    /\ UNCHANGED <<shopping, store, req_uuid, ingredient, integrity_error, inserted, removed>>

\* the create of ShoppingList.objects.get_or_create (shopping_app/views.py 174)
AddRecipeListCreate(p) ==
    /\ pc[p] = "add_recipe_list"
    /\ ShoppingList' = ShoppingList \cup
           {[id |-> next_id.ShoppingList, user |-> request[p].user, title |-> local[p].title]}
    /\ next_id' = [next_id EXCEPT !.ShoppingList = @ + 1]
    /\ local' = [local EXCEPT ![p].shopping_list = next_id.ShoppingList,
                             ![p].list_created = TRUE]
    /\ pc' = [pc EXCEPT ![p] = "add_recipe_load"]
    /\ UNCHANGED <<Recipe, Ingredient, RecipeIngredient, Comment, ShoppingListItem, request,
                   req_uuid, ingredient, response, integrity_error, inserted, removed>>

\* transaction.atomic() and the evaluation of recipe_ings by the for loop
\* (shopping_app/views.py 176, 179-180)
AddRecipeLoad(p) ==
    /\ pc[p] = "add_recipe_load"
    /\ LET rows == {ri \in RecipeIngredient : ri.recipe = local[p].recipe}
       IN \E recipe_ings \in RowOrders(rows) :
            /\ local' = [local EXCEPT ![p].recipe_ings = recipe_ings]
            /\ pc' = [pc EXCEPT ![p] = IF rows = {} THEN "add_recipe_commit" ELSE "add_recipe_item"]
    /\ UNCHANGED <<shopping, store, request, req_uuid, ingredient, response, integrity_error,
                   inserted, removed>>

\* the rows the open transaction of p reads: the committed rows with its own
\* updates, and the rows it created
UpdatedBy(p, i) ==
    IF \E u \in local[p].updated : u.id = i.id
    THEN LET u == CHOOSE u \in local[p].updated : u.id = i.id
         IN [i EXCEPT !.quantity = u.quantity, !.unit = u.unit]
    ELSE i
Visible(p) == {UpdatedBy(p, i) : i \in ShoppingListItem} \cup local[p].created

\* qty = (ri.quantity or 0) * multiply; ri.quantity is the float of the row
Qty(p) ==
    mul(or(Float(Head(local[p].recipe_ings).quantity), Num(0)), Multiply(request[p].data))

\* an exception leaves transaction.atomic(): the writes are rolled back and
\* the request ends with a server error
Rollback(p) ==
    /\ local' = [local EXCEPT ![p].created = {}, ![p].updated = {}]
    /\ Respond(p, 500, 0, <<>>)

NextItem(p) ==
    pc' = [pc EXCEPT ![p] = IF Len(local[p].recipe_ings) > 1
                            THEN "add_recipe_item" ELSE "add_recipe_commit"]

\* one pass of the loop up to the get of get_or_create and, when the row is
\* found, the merge (shopping_app/views.py 181-182, 188-193)
AddRecipeItem(p) ==
    /\ pc[p] = "add_recipe_item"
    /\ LET ri == Head(local[p].recipe_ings)
           qty == Qty(p)
           got == {i \in Visible(p) : /\ i.shopping_list = local[p].shopping_list
                                      /\ i.ingredient = ri.ingredient
                                      /\ i.recipe = local[p].recipe}
           obj == CHOOSE i \in got : TRUE
           quantity == add(Float(obj.quantity), qty)
       IN IF qty = TypeError \/ Cardinality(got) > 1
          THEN Rollback(p)
          ELSE IF got = {}
          THEN pc' = [pc EXCEPT ![p] = "add_recipe_item_create"] /\ UNCHANGED <<local, response>>
          ELSE IF quantity = TypeError
          THEN Rollback(p)
          ELSE /\ local' = [local EXCEPT
                      ![p].updated = {u \in @ : u.id # obj.id}
                                     \cup {[id |-> obj.id, quantity |-> quantity[2], unit |-> ri.unit]},
                      ![p].recipe_ings = Tail(@)]
               /\ NextItem(p)
               /\ UNCHANGED response
    /\ UNCHANGED <<shopping, store, request, req_uuid, ingredient, integrity_error,
                   inserted, removed>>

\* a mutation of the row: recipe=recipe left out of get_or_create
NewItemWithoutRecipe(p) ==
    LET ri == Head(local[p].recipe_ings)
    IN [id |-> next_id.ShoppingListItem, shopping_list |-> local[p].shopping_list,
        ingredient |-> ri.ingredient, recipe |-> NoRecipe,
        quantity |-> Qty(p)[2], unit |-> ri.unit, is_purchased |-> FALSE]

\* the row get_or_create creates: its key and its defaults (views.py 182-187)
NewItem(p) ==
    LET ri == Head(local[p].recipe_ings)
    IN [id |-> next_id.ShoppingListItem, shopping_list |-> local[p].shopping_list,
        ingredient |-> ri.ingredient, recipe |-> local[p].recipe,
        quantity |-> Qty(p)[2], unit |-> ri.unit, is_purchased |-> FALSE]

\* the create of ShoppingListItem.objects.get_or_create (views.py 182-187)
AddRecipeItemCreate(p) ==
    /\ pc[p] = "add_recipe_item_create"
    /\ LET row == NewItem(p)
       IN local' = [local EXCEPT ![p].created = @ \cup {row}, ![p].recipe_ings = Tail(@)]
    /\ next_id' = [next_id EXCEPT !.ShoppingListItem = @ + 1]
    /\ NextItem(p)
    /\ UNCHANGED <<shopping, Recipe, Ingredient, RecipeIngredient, Comment, request, req_uuid,
                   ingredient, response, integrity_error, inserted, removed>>

\* the foreign keys of a ShoppingListItem row, checked when the transaction
\* commits
ItemForeignKeysHold(row) ==
    /\ \E l \in ShoppingList : l.id = row.shopping_list
    /\ \E i \in Ingredient : i.id = row.ingredient
    /\ row.recipe # NoRecipe => \E r \in Recipe : r.id = row.recipe

\* the end of transaction.atomic() and the response (views.py 179, 195)
AddRecipeCommit(p) ==
    /\ pc[p] = "add_recipe_commit"
    /\ IF \A row \in local[p].created : ItemForeignKeysHold(row)
       THEN /\ ShoppingListItem' = Visible(p)
            /\ Respond(p, 201, 0, {i \in Visible(p) :
                                      \/ i \in local[p].created
                                      \/ \E u \in local[p].updated : u.id = i.id})
            /\ UNCHANGED local
       ELSE Rollback(p) /\ UNCHANGED ShoppingListItem
    /\ UNCHANGED <<ShoppingList, store, request, req_uuid, ingredient, integrity_error,
                   inserted, removed>>

(***************************************************************************)
(* ShoppingListViewSet: POST /api/v1/shopping-lists/                       *)
(***************************************************************************)
\* ShoppingListSerializer: title a non-blank string, user the id of a user
ListIsValid(data) ==
    /\ data.title[1] = "str" /\ strip(data.title[2]) # <<>>
    /\ data.user[1] = "int" /\ data.user[2] \in Users

\* CreateModelMixin.create with perform_create: serializer.save(user=request.user)
ListCreate(p, user, data) ==
    /\ Arrive(p, "list_create", user, 0, 0, data)
    /\ IF ~Authenticated(user)
       THEN Respond(p, 401, 0, <<>>) /\ UNCHANGED <<ShoppingList, next_id>>
       ELSE IF ~ListIsValid(data)
       THEN Respond(p, 400, 0, <<>>) /\ UNCHANGED <<ShoppingList, next_id>>
       ELSE /\ ShoppingList' = ShoppingList \cup
                   {[id |-> next_id.ShoppingList, user |-> user, title |-> strip(data.title[2])]}
            /\ next_id' = [next_id EXCEPT !.ShoppingList = @ + 1]
            /\ Respond(p, 201, next_id.ShoppingList, <<>>)
    /\ UNCHANGED <<Recipe, Ingredient, RecipeIngredient, Comment, ShoppingListItem, local,
                   req_uuid, ingredient, integrity_error, inserted, removed>>

(***************************************************************************)
(* ShoppingListItemViewSet.create: POST /api/v1/shopping-list/items/       *)
(***************************************************************************)
\* the presence check and the target list: ShoppingList.objects.get, or
\* Recipe.objects.get and the get of get_or_create (shopping_app/views.py 74-101)
ItemCreateStart(p, user, data) ==
    /\ Arrive(p, "item_create", user, 0, 0, data)
    /\ LET own == {l \in ShoppingList : l.id = data.shopping_list_id[2] /\ l.user = user}
           recipe == {r \in Recipe : r.id = data.recipe_id[2]}
           lists == {l \in ShoppingList : l.user = user /\ l.title = First(recipe).title}
           Target(id) == /\ local' = [local EXCEPT ![p] = [NoLocal EXCEPT !.shopping_list = id]]
                         /\ pc' = [pc EXCEPT ![p] = "item_create_save"]
                         /\ UNCHANGED response
       IN IF ~Authenticated(user)
          THEN Respond(p, 401, 0, <<>>) /\ UNCHANGED local
          ELSE IF \/ ~bool(Get(data.ingredient_id)) \/ Get(data.quantity) = Null
                  \/ Get(data.unit) \in {Null, Str(<<>>)}
          THEN Respond(p, 400, 0, <<>>) /\ UNCHANGED local
          ELSE IF bool(Get(data.shopping_list_id))
          THEN IF own = {} THEN Respond(p, 404, 0, <<>>) /\ UNCHANGED local
               ELSE Target(First(own).id)
          ELSE IF ~bool(Get(data.recipe_id))
          THEN Respond(p, 400, 0, <<>>) /\ UNCHANGED local
          ELSE IF recipe = {}
          THEN Respond(p, 404, 0, <<>>) /\ UNCHANGED local
          ELSE IF Cardinality(lists) > 1
          THEN Respond(p, 500, 0, <<>>) /\ UNCHANGED local
          ELSE IF lists # {}
          THEN Target(First(lists).id)
          ELSE /\ local' = [local EXCEPT ![p] = [NoLocal EXCEPT !.title = First(recipe).title]]
               /\ pc' = [pc EXCEPT ![p] = "item_create_list"]
               /\ UNCHANGED response
    /\ UNCHANGED <<shopping, store, req_uuid, ingredient, integrity_error, inserted, removed>>

\* the create of ShoppingList.objects.get_or_create (shopping_app/views.py 101)
ItemCreateList(p) ==
    /\ pc[p] = "item_create_list"
    /\ ShoppingList' = ShoppingList \cup
           {[id |-> next_id.ShoppingList, user |-> request[p].user, title |-> local[p].title]}
    /\ next_id' = [next_id EXCEPT !.ShoppingList = @ + 1]
    /\ local' = [local EXCEPT ![p].shopping_list = next_id.ShoppingList]
    /\ pc' = [pc EXCEPT ![p] = "item_create_save"]
    /\ UNCHANGED <<Recipe, Ingredient, RecipeIngredient, Comment, ShoppingListItem, request,
                   req_uuid, ingredient, response, integrity_error, inserted, removed>>

\* ShoppingListItemSerializer on the fields of a create or an update: the
\* related rows exist, quantity is a number, unit a non-blank string
QuantityIsValid(v) == v[1] \in {"int", "float", "str"} /\ ~FloatRaises(v)
UnitIsValid(v) == v[1] = "str" /\ strip(v[2]) # <<>>
RelatedExists(table, v) == v[1] = "int" /\ \E row \in table : row.id = v[2]

\* Ingredient.objects.get, Recipe.objects.get, the serializer and its save
\* (shopping_app/views.py 104-131)
ItemCreateSave(p) ==
    /\ pc[p] = "item_create_save"
    /\ LET data == request[p].data
           recipe_id == Get(data.recipe_id)
           row == [id |-> next_id.ShoppingListItem, shopping_list |-> local[p].shopping_list,
                   ingredient |-> data.ingredient_id[2],
                   recipe |-> IF bool(recipe_id) THEN recipe_id[2] ELSE NoRecipe,
                   quantity |-> float(data.quantity), unit |-> strip(data.unit[2]),
                   is_purchased |-> FALSE]
       IN IF ~RelatedExists(Ingredient, data.ingredient_id)
          THEN Respond(p, 404, 0, <<>>) /\ UNCHANGED <<ShoppingListItem, next_id>>
          ELSE IF bool(recipe_id) /\ ~RelatedExists(Recipe, recipe_id)
          THEN Respond(p, 404, 0, <<>>) /\ UNCHANGED <<ShoppingListItem, next_id>>
          ELSE IF \/ ~RelatedExists(ShoppingList, Num(local[p].shopping_list))
                  \/ ~QuantityIsValid(data.quantity) \/ ~UnitIsValid(data.unit)
          THEN Respond(p, 400, 0, <<>>) /\ UNCHANGED <<ShoppingListItem, next_id>>
          ELSE /\ ShoppingListItem' = ShoppingListItem \cup {row}
               /\ next_id' = [next_id EXCEPT !.ShoppingListItem = @ + 1]
               /\ Respond(p, 201, row.id, row)
    /\ UNCHANGED <<Recipe, Ingredient, RecipeIngredient, Comment, ShoppingList, local, request,
                   req_uuid, ingredient, integrity_error, inserted, removed>>

(***************************************************************************)
(* ShoppingListItemViewSet.partial_update / update / destroy, on its       *)
(* get_queryset.                                                           *)
(***************************************************************************)
\* ShoppingListItem.objects.filter(shopping_list__user=self.request.user)
items_get_queryset(user) ==
    {i \in ShoppingListItem : \E l \in ShoppingList : l.id = i.shopping_list /\ l.user = user}

\* the serializer's validation of an update; a PATCH may leave fields out
ItemUpdateIsValid(data, partial) ==
    /\ IF data.shopping_list = Absent THEN partial
       ELSE RelatedExists(ShoppingList, data.shopping_list)
    /\ IF data.ingredient = Absent THEN partial ELSE RelatedExists(Ingredient, data.ingredient)
    /\ data.recipe \in {Absent, Null} \/ RelatedExists(Recipe, data.recipe)
    /\ IF data.quantity = Absent THEN partial ELSE QuantityIsValid(data.quantity)
    /\ IF data.unit = Absent THEN partial ELSE UnitIsValid(data.unit)
    /\ data.is_purchased \in BooleanTrue \cup BooleanFalse \cup {Absent}

ItemUpdated(i, data) ==
    [i EXCEPT !.shopping_list = IF data.shopping_list = Absent THEN @ ELSE data.shopping_list[2],
              !.ingredient = IF data.ingredient = Absent THEN @ ELSE data.ingredient[2],
              !.recipe = IF data.recipe = Absent THEN @
                         ELSE IF data.recipe = Null THEN NoRecipe ELSE data.recipe[2],
              !.quantity = IF data.quantity = Absent THEN @ ELSE float(data.quantity),
              !.unit = IF data.unit = Absent THEN @ ELSE strip(data.unit[2]),
              !.is_purchased = IF data.is_purchased = Absent THEN @
                               ELSE data.is_purchased \in BooleanTrue]

\* PUT (partial = FALSE) and PATCH (partial = TRUE) /api/v1/shopping-list/items/{pk}/
ItemUpdate(p, user, pk, data, partial) ==
    /\ Arrive(p, IF partial THEN "item_patch" ELSE "item_put", user, 0, pk, data)
    /\ LET found == {i \in items_get_queryset(user) : i.id = pk}
       IN IF ~Authenticated(user)
          THEN Respond(p, 401, 0, <<>>) /\ UNCHANGED ShoppingListItem
          ELSE IF found = {}
          THEN Respond(p, 404, 0, <<>>) /\ UNCHANGED ShoppingListItem
          ELSE IF ~ItemUpdateIsValid(data, partial)
          THEN Respond(p, 400, 0, <<>>) /\ UNCHANGED ShoppingListItem
          ELSE /\ ShoppingListItem' = (ShoppingListItem \ found)
                                      \cup {ItemUpdated(First(found), data)}
               /\ Respond(p, 200, pk, ItemUpdated(First(found), data))
    /\ UNCHANGED <<ShoppingList, store, local, req_uuid, ingredient, integrity_error,
                   inserted, removed>>

\* DELETE /api/v1/shopping-list/items/{pk}/
ItemDestroy(p, user, pk) ==
    /\ Arrive(p, "item_delete", user, 0, pk, <<>>)
    /\ LET found == {i \in items_get_queryset(user) : i.id = pk}
       IN IF ~Authenticated(user)
          THEN Respond(p, 401, 0, <<>>) /\ UNCHANGED ShoppingListItem
          ELSE IF found = {}
          THEN Respond(p, 404, 0, <<>>) /\ UNCHANGED ShoppingListItem
          ELSE /\ ShoppingListItem' = ShoppingListItem \ found
               /\ Respond(p, 204, pk, <<>>)
    /\ UNCHANGED <<ShoppingList, store, local, req_uuid, ingredient, integrity_error,
                   inserted, removed>>

(***************************************************************************)
(* The requests of a run.                                                  *)
(***************************************************************************)
Clients == Users \cup {Anon}

\* the ids a client may name: those of the rows and one that names no row
RecipeIds == 1..next_id.Recipe
RecipeIngredientIds == 1..next_id.RecipeIngredient

Soup == [title |-> Str(<<"Soup">>), description |-> Str(<<"x">>), is_public |-> Bool(TRUE)]
Stew == [title |-> Str(<<"Stew">>), description |-> Str(<<"x">>), is_public |-> Absent]
Flour == [name |-> Str(<<"Flour">>), quantity |-> Num(200), unit |-> Str(<<"g">>)]
FlourText == [name |-> Str(<<"Flour", " ">>), quantity |-> Str(<<"2", "0", "0">>),
              unit |-> Str(<<"g">>)]
Hi == [text |-> Str(<<"hi">>)]

\* the steps a handler takes after its first
Continue(p) ==
    \/ RecipeCreateInsert(p)
    \/ RecipeCreateRefetch(p)
    \/ IngredientGetOrCreate(p)
    \/ IngredientCreate(p)
    \/ IngredientPostInsert(p)
    \/ IngredientPostRefetch(p)
    \/ CommentPostInsert(p)
    \/ CommentPostRefetch(p)

\* valid requests of every kind by the registered users
Next ==
    \/ \E p \in Procs, user \in Users : RecipeCreateLookup(p, user, Soup)
    \/ \E p \in Procs, user \in Users, pk \in RecipeIds :
           RecipeUpdate(p, user, pk, Stew, FALSE)
    \/ \E p \in Procs, user \in Users, pk \in RecipeIds : RecipeDestroy(p, user, pk)
    \/ \E p \in Procs, user \in Users, recipe_id \in RecipeIds, data \in {Flour, FlourText} :
           IngredientPostLookup(p, user, recipe_id, data)
    \/ \E p \in Procs, user \in Users, recipe_id \in RecipeIds,
          ingredient_id \in RecipeIngredientIds :
           IngredientDelete(p, user, recipe_id, ingredient_id)
    \/ \E p \in Procs, user \in Users, recipe_id \in RecipeIds :
           CommentPostLookup(p, user, recipe_id, Hi)
    \/ \E p \in Procs : Continue(p)

Spec == Init /\ [][Next]_vars

(***************************************************************************)
(* Vocabulary of the properties.                                           *)
(***************************************************************************)
CreateKinds == {"recipe_create", "ingredient_add", "comment_add"}
Done(p) == pc[p] = "done"
\* the response carries a row
Succeeded(p) == Done(p) /\ response[p].status \in {200, 201}

TableName(kind) ==
    CASE kind = "recipe_create" -> "Recipe"
      [] kind = "ingredient_add" -> "RecipeIngredient"
      [] kind = "comment_add" -> "Comment"
TableOf(kind) ==
    CASE kind = "recipe_create" -> Recipe
      [] kind = "ingredient_add" -> RecipeIngredient
      [] kind = "comment_add" -> Comment

\* what a create request asks for: the acting user, the path and the payload
\* as the handler normalizes it
Normalized(r) ==
    CASE r.kind = "recipe_create" ->
           <<r.user, Get(r.data.title), Get(r.data.description),
             bool(GetDefault(r.data.is_public, Bool(TRUE)))>>
      [] r.kind = "ingredient_add" ->
           <<r.user, r.recipe_id, StripOrEmpty(Get(r.data.name)),
             float(Get(r.data.quantity)), StripOrEmpty(Get(r.data.unit))>>
      [] r.kind = "comment_add" ->
           <<r.user, r.recipe_id, StripOrEmpty(Get(r.data.text))>>
SameRequest(r1, r2) ==
    r1.kind \in CreateKinds /\ r1.kind = r2.kind /\ Normalized(r1) = Normalized(r2)

\* the rows ever inserted with the key, and those of them deleted since
InsertedWith(table, key) == {e \in inserted : e[1] = table /\ e[3] = key}
RemovedWith(table, key) == {e \in InsertedWith(table, key) : <<e[1], e[2]>> \in removed}

(***************************************************************************)
(* C1: the same valid create request submitted twice, one after the other: *)
(* the first, which inserts the row, responds 201 with the row's id; the   *)
(* second, arriving when the first has responded and its row is stored,    *)
(* responds 200 with the same id, and one row with the key exists.         *)
(***************************************************************************)
C1_Step(p, q) ==
    LET rows == {row \in TableOf(request[p].kind) : row.id = response[p].id}
    IN  /\ (pc[p] \in {"recipe_insert", "ingredient_insert", "comment_insert"}
            /\ inserted' # inserted /\ pc'[p] = "done")
           => /\ response'[p].status = 201
              /\ inserted' \ inserted =
                     {<<TableName(request[p].kind), response'[p].id, req_uuid[p]>>}
        /\ (/\ p # q /\ pc[q] = "idle" /\ pc'[q] # "idle"
            /\ Done(p) /\ request[p].kind \in CreateKinds /\ response[p].status = 201
            /\ rows # {}
            /\ SameRequest(request[p], request'[q]))
           => /\ pc'[q] = "done"
              /\ response'[q].status = 200
              /\ response'[q].id = response[p].id
              /\ Cardinality({row \in TableOf(request[p].kind) :
                                  row.request_uuid = req_uuid[p]}) = 1
              /\ UNCHANGED store

PassedLookup(p) ==
    /\ Done(p) /\ request[p].kind \in CreateKinds
    /\ req_uuid[p] # NoUUID /\ response[p].status # 200

C2_RaceConvergence ==
    \A p, q \in Procs :
        (/\ p # q /\ PassedLookup(p) /\ PassedLookup(q)
         /\ request[p].kind = request[q].kind /\ req_uuid[p] = req_uuid[q]
         /\ RemovedWith(TableName(request[p].kind), req_uuid[p]) = {}
         /\ <<"Recipe", request[p].recipe_id>> \notin removed)
        => /\ Cardinality(InsertedWith(TableName(request[p].kind), req_uuid[p])) = 1
           /\ Succeeded(p) /\ Succeeded(q)
           /\ response[p].id = response[q].id

\* both passed the lookup, one inserted, the other met the unique constraint
C2_Witness ==
    \E p, q \in Procs :
        /\ p # q /\ PassedLookup(p) /\ PassedLookup(q)
        /\ request[p].kind = "recipe_create" /\ request[q].kind = "recipe_create"
        /\ req_uuid[p] = req_uuid[q]
        /\ integrity_error[p] = "none" /\ integrity_error[q] = "unique"
        /\ response[p].id = response[q].id /\ response[p].id # 0

(***************************************************************************)
(* C3: in each of the tables Recipe, RecipeIngredient and Comment no two   *)
(* rows share a non-null request_uuid.                                     *)
(***************************************************************************)
UniqueIn(table) ==
    \A r1, r2 \in table :
        (r1.request_uuid # NoUUID /\ r1.request_uuid = r2.request_uuid) => r1 = r2

C3_UniqueKeys == UniqueIn(Recipe) /\ UniqueIn(RecipeIngredient) /\ UniqueIn(Comment)

\* the constraint has rejected an insert, and null keys repeat
C3_Witness ==
    /\ \E p \in Procs : Done(p) /\ integrity_error[p] = "unique"
                        /\ request[p].kind = "comment_add"
    /\ \E r1, r2 \in Recipe : r1 # r2 /\ r1.request_uuid = NoUUID /\ r2.request_uuid = NoUUID
    /\ \E r \in Recipe : r.request_uuid # NoUUID

(***************************************************************************)
(* C4: a create request whose insert failed on the unique constraint of    *)
(* the key (it lost the insert race) never ends with an error: it returns  *)
(* a row, under every interleaving of the other requests.                  *)
(***************************************************************************)
C4_LoserReturnsWinner ==
    \A p \in Procs :
        (Done(p) /\ request[p].kind \in CreateKinds /\ integrity_error[p] = "unique")
        => Succeeded(p)

(***************************************************************************)
(* C5: only the request whose insert persisted the row responds 201; a     *)
(* request whose insert failed on the unique constraint of the key and     *)
(* that re-fetched the winner's row responds 200.                          *)
(***************************************************************************)
C5_LoserResponds200 ==
    \A p \in Procs :
        (Succeeded(p) /\ request[p].kind \in CreateKinds)
        => /\ response[p].status = 201 => integrity_error[p] = "none"
           /\ integrity_error[p] = "unique" => response[p].status = 200

(***************************************************************************)
(* C6 as claimed: for every derived key exactly one row is ever persisted, *)
(* whatever updates and deletions are handled between the requests.        *)
(***************************************************************************)
C6_OneRowEver ==
    \A e \in inserted : Cardinality(InsertedWith(e[1], e[3])) = 1

(***************************************************************************)
(* C6 as amended: for every derived key the rows ever persisted exceed the *)
(* deleted ones among them by at most one: a further row is persisted for  *)
(* a key only after the deletion of the previous one, and while no row of  *)
(* the key is deleted exactly one row is ever persisted for it.            *)
(***************************************************************************)
C6_OneRowUntilDeleted ==
    \A e \in inserted :
        /\ Cardinality(InsertedWith(e[1], e[3])) <= 1 + Cardinality(RemovedWith(e[1], e[3]))
        /\ Cardinality(InsertedWith(e[1], e[3])) >= 1

\* a key whose row was deleted and persisted again by a repeat of the request
C6_Witness ==
    \E e \in inserted :
        /\ Cardinality(InsertedWith(e[1], e[3])) = 2
        /\ Cardinality(RemovedWith(e[1], e[3])) = 1
        /\ \E row \in Recipe : row.request_uuid = e[3]
        /\ \E p, q \in Procs : p # q /\ Done(p) /\ Done(q) /\ req_uuid[p] = e[3]
                               /\ req_uuid[q] = e[3]
                               /\ response[p].status = 201 /\ response[q].status = 201

(***************************************************************************)
(* C7 as claimed: when the same create request is submitted twice, the     *)
(* body of the 200 answer equals the body of the 201 answer, whatever      *)
(* requests were handled between the two.                                  *)
(***************************************************************************)
C7_SameBodyAlways ==
    \A p, q \in Procs :
        (/\ p # q /\ Done(p) /\ Done(q)
         /\ SameRequest(request[p], request[q])
         /\ response[p].status = 201 /\ response[q].status = 200
         /\ response[p].id = response[q].id)
        => response[q].body = response[p].body

(***************************************************************************)
(* C7 as amended: the body of the 200 answer is the row as stored when the *)
(* repeat is handled.  It equals the body of the 201 answer for ingredient *)
(* and comment rows always, and for a recipe whenever the recipe, its      *)
(* ingredients and its comments are as they were at the 201 answer; the    *)
(* recipe's id, author and request_uuid are equal in any case.             *)
(***************************************************************************)
C7_Step(p, q) ==
    LET kind == request[p].kind
        row == CHOOSE r \in TableOf(kind) : r.id = response[p].id
    IN  (/\ p # q /\ pc[q] = "idle" /\ pc'[q] = "done"
         /\ Done(p) /\ kind \in CreateKinds /\ response[p].status = 201
         /\ SameRequest(request[p], request'[q])
         /\ response'[q].status = 200 /\ response'[q].id = response[p].id)
        => /\ kind = "ingredient_add" => response'[q].body = response[p].body
           /\ kind = "comment_add" => response'[q].body = response[p].body
           /\ kind = "recipe_create" =>
                 /\ response'[q].body.id = response[p].body.id
                 /\ response'[q].body.author = response[p].body.author
                 /\ response'[q].body.request_uuid = response[p].body.request_uuid
                 /\ RecipeSerializer(row) = response[p].body
                        => response'[q].body = response[p].body

C7_SameBodyIfUnchanged == [][\A p, q \in Procs : C7_Step(p, q)]_vars

\* a recipe answered 201 and then 200 with the same body, and an ingredient too
C7_Witness ==
    \E p, q \in Procs :
        /\ p # q /\ Done(p) /\ Done(q)
        /\ request[p].kind = "recipe_create" /\ request[q].kind = "recipe_create"
        /\ SameRequest(request[p], request[q])
        /\ response[p].status = 201 /\ response[q].status = 200
        /\ response[p].id = response[q].id
        /\ response[q].body = response[p].body
        /\ \E r \in Procs : Done(r) /\ request[r].kind = "comment_add"
                            /\ response[r].status = 201 /\ request[r].recipe_id = 1

(***************************************************************************)
(* Recipe creation alone, with payloads that differ in one field each.     *)
(***************************************************************************)
RecipePayloads ==
    { Soup,
      [Soup EXCEPT !.title = Str(<<"Soup2">>)],
      [Soup EXCEPT !.description = Str(<<"y">>)],
      [Soup EXCEPT !.is_public = Bool(FALSE)],
      [Soup EXCEPT !.is_public = Str(<<"false">>)],
      [Soup EXCEPT !.is_public = Absent] }

NextRecipes ==
    \/ \E p \in Procs, user \in Users, data \in RecipePayloads :
           RecipeCreateLookup(p, user, data)
    \/ \E p \in Procs : RecipeCreateInsert(p)
    \/ \E p \in Procs : RecipeCreateRefetch(p)

SpecRecipes == Init /\ [][NextRecipes]_vars

\* the requests ask for different recipes: another user, or another title,
\* description or is_public as the serializer reads them
Differ(r1, r2) ==
    \/ r1.user # r2.user
    \/ RecipeValidated(r1.data) # RecipeValidated(r2.data)

(***************************************************************************)
(* C8: two recipe creations that differ in title, description, is_public   *)
(* or user derive different keys: each gets a row of its own, and a        *)
(* request is answered 200 only if a request for the same recipe came      *)
(* before it.                                                              *)
(***************************************************************************)
C8_DistinctRequestsDistinctRows ==
    \A p, q \in Procs :
        (/\ p # q /\ Succeeded(p) /\ Succeeded(q)
         /\ request[p].kind = "recipe_create" /\ request[q].kind = "recipe_create"
         /\ Differ(request[p], request[q]))
        => /\ response[p].id # response[q].id
           /\ req_uuid[p] # req_uuid[q]

(***************************************************************************)
(* C9: the same text posted by the same user on two recipes gives two      *)
(* Comment rows: answers to comments on different recipes never carry the  *)
(* same row, and a comment is answered 200 only if the same user posted    *)
(* the same text on the same recipe before.                                *)
(***************************************************************************)
C9_CommentsScopedByRecipe ==
    \A p \in Procs :
        (Succeeded(p) /\ request[p].kind = "comment_add")
        => /\ \A q \in Procs :
                  (/\ Succeeded(q) /\ request[q].kind = "comment_add"
                   /\ request[q].recipe_id # request[p].recipe_id)
                  => response[q].id # response[p].id
           /\ response[p].status = 200
                  => \E q \in Procs \ {p} :
                         /\ Done(q) /\ response[q].status = 201
                         /\ SameRequest(request[q], request[p])
                         /\ response[q].id = response[p].id

\* the same text by the same user on two recipes: two answers 201, two rows
C9_Witness ==
    \E p, q \in Procs :
        /\ Done(p) /\ Done(q)
        /\ request[p].kind = "comment_add" /\ request[q].kind = "comment_add"
        /\ request[p].user = request[q].user /\ request[p].data = request[q].data
        /\ request[p].recipe_id # request[q].recipe_id
        /\ response[p].status = 201 /\ response[q].status = 201
        /\ response[p].id # response[q].id
        /\ \E c1, c2 \in Comment : c1.id = response[p].id /\ c2.id = response[q].id

(***************************************************************************)
(* make_request_uuid as a function: two callers derive the key of          *)
(* mappings that are given with their pairs in any order.                  *)
(***************************************************************************)
\* the orders in which a dict of these pairs can have been built
Orders(pairs) ==
    { [i \in 1..Len(pairs) |-> pairs[f[i]]] : f \in Permutations(1..Len(pairs)) }

MaxDerivers == 2
Derivers == 1..MaxDerivers

BodyMappings ==
    { Map(m) : m \in Orders(<< <<"title", Str(<<"Soup">>)>>,
                              <<"description", Str(<<"x">>)>>,
                              <<"is_public", Bool(TRUE)>> >>) }
    \cup { Map(<< <<"text", Str(<<"hi">>)>> >>) }
    \cup { Map(m) : m \in UNION { Orders(<< <<"name", Str(<<"Flour">>)>>, <<"body", Map(n)>> >>) :
                                    n \in Orders(<< <<"quantity", Float(200)>>,
                                                   <<"unit", Str(<<"g">>)>> >>) } }
ExtraMappings ==
    { Null } \cup { Map(m) : m \in Orders(<< <<"recipe_id", Num(1)>>, <<"user_id", Num(1)>> >>) }

DeriveInputs ==
    [body : BodyMappings, path : {RecipesPath, PathOf(1, "/comments/")},
     user_id : {Num(1), Null}, extra : ExtraMappings]

InitDerive ==
    /\ InitStore
    /\ pc = [p \in Procs |-> "idle"]
    /\ request \in { [p \in Procs |-> IF p \in Derivers
                                       THEN [NoRequest EXCEPT !.kind = "derive", !.data = d[p]]
                                       ELSE NoRequest] : d \in [Derivers -> DeriveInputs] }
    /\ req_uuid = [p \in Procs |-> NoUUID]
    /\ ingredient = [p \in Procs |-> 0]
    /\ response = [p \in Procs |-> NoResponse]
    /\ integrity_error = [p \in Procs |-> "none"]
    /\ local = [p \in Procs |-> NoLocal]
    /\ inserted = {}
    /\ removed = {}

\* req_uuid = make_request_uuid(body, path=..., user_id=..., extra=...)
DeriveKey(p) ==
    /\ pc[p] = "idle" /\ request[p].kind = "derive"
    /\ req_uuid' = [req_uuid EXCEPT ![p] =
           make_request_uuid(request[p].data.body, request[p].data.path,
                             request[p].data.user_id, request[p].data.extra)]
    /\ pc' = [pc EXCEPT ![p] = "done"]
    /\ UNCHANGED <<shopping, local, store, request, ingredient, response, integrity_error, inserted, removed>>

NextDerive == \E p \in Derivers : DeriveKey(p)

SpecDerive == InitDerive /\ [][NextDerive]_vars

\* a value without the order of its mappings' pairs, at every nesting level
RECURSIVE Unordered(_)
Unordered(v) ==
    IF v[1] = "map"
    THEN <<"map", {<<v[2][i][1], Unordered(v[2][i][2])>> : i \in 1..Len(v[2])}>>
    ELSE v

SamePairs(d1, d2) ==
    /\ Unordered(d1.body) = Unordered(d2.body)
    /\ d1.path = d2.path
    /\ d1.user_id = d2.user_id
    /\ Unordered(d1.extra) = Unordered(d2.extra)

(***************************************************************************)
(* C10: mappings that hold the same pairs in a different key order, at     *)
(* every nesting level, with the same path, user id and extra, derive the  *)
(* same key.                                                               *)
(***************************************************************************)
C10_KeyOrderIndependent ==
    \A p, q \in Derivers :
        (Done(p) /\ Done(q) /\ SamePairs(request[p].data, request[q].data))
        => req_uuid[p] = req_uuid[q]

\* the same pairs in another order, in the body, inside it and in extra
C10_Witness ==
    \E p, q \in Derivers :
        /\ Done(p) /\ Done(q) /\ SamePairs(request[p].data, request[q].data)
        /\ request[p].data.body # request[q].data.body
        /\ Len(request[p].data.body[2]) = 2
        /\ request[p].data.body[2][1][1] = "name" /\ request[q].data.body[2][1][1] = "name"
        /\ request[p].data.extra # request[q].data.extra
        /\ req_uuid[p] = req_uuid[q] /\ req_uuid[p] # NoUUID

(***************************************************************************)
(* The shopping lists: requests on shopping_app over recipes that have     *)
(* their ingredients.                                                      *)
(***************************************************************************)
\* recipe 1 (public, of user 1) holds 200 g of flour, recipe 2 (private, of
\* user 2) holds flour "to taste", quantity 0; user 2 commented on recipe 1
InitShoppingStore ==
    /\ Recipe = LegacyRecipes
    /\ Ingredient = {[id |-> 1, name |-> <<"Flour">>]}
    /\ RecipeIngredient =
           { [id |-> 1, recipe |-> 1, ingredient |-> 1, quantity |-> 200, unit |-> <<"g">>,
              request_uuid |-> NoUUID],
             [id |-> 2, recipe |-> 2, ingredient |-> 1, quantity |-> 0, unit |-> <<"g">>,
              request_uuid |-> NoUUID] }
    /\ Comment = {[id |-> 1, recipe |-> 1, user |-> 2, text |-> <<"hi">>, request_uuid |-> NoUUID]}
    /\ ShoppingList = {}
    /\ ShoppingListItem = {}
    /\ next_id = [Recipe |-> 3, Ingredient |-> 2, RecipeIngredient |-> 3, Comment |-> 2,
                  ShoppingList |-> 1, ShoppingListItem |-> 1]

InitShopping == InitShoppingStore /\ InitRequests

\* the bodies of add-recipe-by-title: a recipe, the list named after it, and
\* the quantities as they are or doubled
AddRecipeBodies ==
    [recipe_id : {Num(1)}, title : {Absent}, multiply : {Absent, Num(2)}]
    \cup [recipe_id : {Num(2)}, title : {Absent}, multiply : {Absent}]

ContinueShopping(p) ==
    \/ AddRecipeListCreate(p)
    \/ AddRecipeLoad(p)
    \/ AddRecipeItem(p)
    \/ AddRecipeItemCreate(p)
    \/ AddRecipeCommit(p)

NextShopping ==
    \/ \E p \in Procs, user \in Users, data \in AddRecipeBodies : AddRecipeStart(p, user, data)
    \/ \E p \in Procs : ContinueShopping(p)

SpecShopping == InitShopping /\ [][NextShopping]_vars

\* the list an aggregation request of the user merges the recipe into
ListsOf(user, title) == {l \in ShoppingList : l.user = user /\ l.title = title}
\* the items of the user's lists of that title for the ingredient and recipe
ItemsOf(user, title, ingredient_id, recipe_id) ==
    {i \in ShoppingListItem : /\ \E l \in ListsOf(user, title) : i.shopping_list = l.id
                              /\ i.ingredient = ingredient_id
                              /\ i.recipe = recipe_id}
\* the aggregation requests of the user for the recipe that have ended
Aggregated(user, recipe_id) ==
    {p \in Procs : /\ Done(p) /\ request[p].kind = "add_recipe"
                   /\ request[p].user = user /\ request[p].data.recipe_id = Num(recipe_id)}
\* the sum of the scaled contributions of these requests
RECURSIVE Contributions(_, _)
Contributions(A, quantity) ==
    IF A = {} THEN 0
    ELSE LET p == CHOOSE p \in A : TRUE
         IN Multiply(request[p].data)[2] * quantity + Contributions(A \ {p}, quantity)
\* every request so far is an aggregation, and none is in progress
OnlyAggregations ==
    \A p \in Procs : pc[p] = "idle" \/ (Done(p) /\ request[p].kind = "add_recipe")

(***************************************************************************)
(* C11: after n aggregations of a recipe into a list, at multipliers m,    *)
(* the list holds exactly one item per ingredient of the recipe, and its   *)
(* quantity is the sum of m * the recipe's quantity (200 twice: 400).      *)
(***************************************************************************)
C11_AggregationSums ==
    OnlyAggregations =>
        \A user \in Users : \A ri \in RecipeIngredient :
            LET A == Aggregated(user, ri.recipe)
                title == (CHOOSE r \in Recipe : r.id = ri.recipe).title
                items == ItemsOf(user, title, ri.ingredient, ri.recipe)
            IN A # {} =>
                  /\ Cardinality(items) = 1
                  /\ \A i \in items : i.quantity = Contributions(A, ri.quantity)

(***************************************************************************)
(* C12: when two recipes that hold the same ingredient have both been      *)
(* aggregated into the same list (the user's one list of that title), the  *)
(* list holds a row for the ingredient from each of the two recipes.       *)
(***************************************************************************)
C12_OneRowPerSourceRecipe ==
    OnlyAggregations =>
        \A user \in Users : \A x, y \in RecipeIngredient :
            LET rx == CHOOSE r \in Recipe : r.id = x.recipe
                ry == CHOOSE r \in Recipe : r.id = y.recipe
            IN (/\ x.recipe # y.recipe /\ x.ingredient = y.ingredient
                /\ rx.title = ry.title /\ Cardinality(ListsOf(user, rx.title)) = 1
                /\ Aggregated(user, x.recipe) # {} /\ Aggregated(user, y.recipe) # {})
               => /\ ItemsOf(user, rx.title, x.ingredient, x.recipe) # {}
                  /\ ItemsOf(user, ry.title, y.ingredient, y.recipe) # {}

\* the other half of C12: a step of an aggregation of one recipe leaves the
\* rows of every other recipe as they are
AggregationKeepsOtherRows ==
    [][\A p \in Procs :
          (pc[p] # pc'[p] /\ request'[p].kind = "add_recipe")
          => \A i \in ShoppingListItem :
                 i.recipe # local[p].recipe => i \in ShoppingListItem']_vars

(***************************************************************************)
(* C13: a shopping list holds at most one item per (ingredient, source     *)
(* recipe) pair.                                                           *)
(***************************************************************************)
C13_OneItemPerPair ==
    \A i, j \in ShoppingListItem :
        (/\ i.shopping_list = j.shopping_list /\ i.ingredient = j.ingredient
         /\ i.recipe = j.recipe /\ i.recipe # NoRecipe)
        => i.id = j.id

(***************************************************************************)
(* Aggregation into an item that is on the list already: user 1 has put    *)
(* 100 g of the flour of recipe 1 on the list Soup by                      *)
(* POST /api/v1/shopping-list/items/.                                      *)
(***************************************************************************)
SeededList == [id |-> 1, user |-> 1, title |-> <<"Soup">>]
SeededItem == [id |-> 1, shopping_list |-> 1, ingredient |-> 1, recipe |-> 1,
               quantity |-> 100, unit |-> <<"g">>, is_purchased |-> FALSE]

InitMerge ==
    /\ Recipe = LegacyRecipes
    /\ Ingredient = {[id |-> 1, name |-> <<"Flour">>]}
    /\ RecipeIngredient =
           { [id |-> 1, recipe |-> 1, ingredient |-> 1, quantity |-> 200, unit |-> <<"g">>,
              request_uuid |-> NoUUID],
             [id |-> 2, recipe |-> 2, ingredient |-> 1, quantity |-> 0, unit |-> <<"g">>,
              request_uuid |-> NoUUID] }
    /\ Comment = {}
    /\ ShoppingList = {SeededList}
    /\ ShoppingListItem = {SeededItem}
    /\ next_id = [Recipe |-> 3, Ingredient |-> 2, RecipeIngredient |-> 3, Comment |-> 1,
                  ShoppingList |-> 2, ShoppingListItem |-> 2]
    /\ InitRequests

SpecMerge == InitMerge /\ [][NextShopping]_vars

ListIds == 1..next_id.ShoppingList
ItemIds == 1..next_id.ShoppingListItem

\* a list named like the recipes, for the user who asks
ListBody(user) == [title |-> Str(<<"Soup">>), user |-> Num(user)]
\* 100 g of flour for recipe 1, on the list named after it or on a given list
NoItemField == [shopping_list_id |-> Absent, recipe_id |-> Absent, ingredient_id |-> Num(1),
                quantity |-> Num(100), unit |-> Str(<<"g">>)]
ItemBodies ==
    {[NoItemField EXCEPT !.recipe_id = Num(1)]}
    \cup {[NoItemField EXCEPT !.shopping_list_id = Num(id)] : id \in ListIds}
\* PATCH bodies: the purchased flag, or another list
NoPatchField == [shopping_list |-> Absent, ingredient |-> Absent, recipe |-> Absent,
                 quantity |-> Absent, unit |-> Absent, is_purchased |-> Absent]
PatchBodies ==
    {[NoPatchField EXCEPT !.is_purchased = Bool(TRUE)]}
    \cup {[NoPatchField EXCEPT !.shopping_list = Num(id)] : id \in ListIds}

NextItems ==
    \/ \E p \in Procs, user \in Users : ListCreate(p, user, ListBody(user))
    \/ \E p \in Procs, user \in Users, data \in ItemBodies : ItemCreateStart(p, user, data)
    \/ \E p \in Procs : ItemCreateList(p)
    \/ \E p \in Procs : ItemCreateSave(p)
    \/ \E p \in Procs, user \in Users, pk \in ItemIds, data \in PatchBodies :
           ItemUpdate(p, user, pk, data, TRUE)
    \/ \E p \in Procs, user \in Users, pk \in ItemIds : ItemDestroy(p, user, pk)
    \/ \E p \in Procs, user \in Users : RecipeDestroy(p, user, 1)

SpecItems == InitShopping /\ [][NextItems]_vars

(***************************************************************************)
(* C15: the deletion of a recipe removes all of its RecipeIngredient and   *)
(* Comment rows and no ShoppingListItem: every item is still there, with   *)
(* recipe set to null if it referred to the recipe and every other field   *)
(* as it was.                                                              *)
(***************************************************************************)
C15_Step(p) ==
    LET pk == request'[p].pk
    IN (/\ pc[p] = "idle" /\ pc'[p] = "done"
        /\ request'[p].kind = "recipe_delete" /\ response'[p].status = 204)
       => /\ \A r \in Recipe' : r.id # pk
          /\ \A x \in RecipeIngredient' : x.recipe # pk
          /\ \A c \in Comment' : c.recipe # pk
          /\ Cardinality(ShoppingListItem') = Cardinality(ShoppingListItem)
          /\ \A i \in ShoppingListItem :
                 [i EXCEPT !.recipe = IF @ = pk THEN NoRecipe ELSE @] \in ShoppingListItem'

C15_DeleteKeepsItems == [][\A p \in Procs : C15_Step(p)]_vars

\* a recipe with an ingredient, a comment and an item on a list was deleted,
\* and the item is on the list without its recipe
C15_Witness ==
    /\ {<<"Recipe", 1>>, <<"RecipeIngredient", 1>>, <<"Comment", 1>>} \subseteq removed
    /\ \E p \in Procs : /\ Done(p) /\ request[p].kind = "item_create"
                        /\ response[p].status = 201 /\ response[p].body.recipe = 1
                        /\ \E i \in ShoppingListItem :
                               i = [response[p].body EXCEPT !.recipe = NoRecipe]

(***************************************************************************)
(* C19: a create, update, partial update or delete of a shopping-list item *)
(* by a user inserts, changes, moves or deletes items of that user's lists *)
(* only: every row the request's step adds to the table, takes from it or  *)
(* replaces in it is on a list the user owns.                              *)
(***************************************************************************)
ItemKinds == {"item_create", "item_put", "item_patch", "item_delete"}
OwnerOf(list_id) == (CHOOSE l \in ShoppingList : l.id = list_id).user

C19_Step(p) ==
    (pc[p] # pc'[p] /\ request'[p].kind \in ItemKinds)
    => \A i \in (ShoppingListItem' \ ShoppingListItem) \cup (ShoppingListItem \ ShoppingListItem') :
           OwnerOf(i.shopping_list) = request'[p].user

C19_OwnListsOnly == [][\A p \in Procs : C19_Step(p)]_vars

(***************************************************************************)
(* C20: there is at most one ShoppingList per (user, title) pair.          *)
(***************************************************************************)
C20_OneListPerUserAndTitle ==
    \A l1, l2 \in ShoppingList :
        (l1.user = l2.user /\ l1.title = l2.title) => l1.id = l2.id

(***************************************************************************)
(* Create requests that are rejected: anonymous clients, recipes that do   *)
(* not exist or belong to another user, missing and blank fields.          *)
(***************************************************************************)
\* a recipe that exists (recipe 1, of user 1) and an id that names none
SomeRecipeIds == {1, next_id.Recipe}

RecipeBodies ==
    {Soup, [Soup EXCEPT !.title = Absent], [Soup EXCEPT !.description = Str(<<" ">>)]}
IngredientBodies ==
    {Flour, [Flour EXCEPT !.name = Str(<<" ">>)], [Flour EXCEPT !.quantity = Absent],
     [Flour EXCEPT !.quantity = Str(<<>>)]}
CommentBodies == {Hi, [text |-> Str(<<" ">>)], [text |-> Absent]}

NextRejects ==
    \/ \E p \in Procs, user \in Clients, data \in RecipeBodies : RecipeCreateLookup(p, user, data)
    \/ \E p \in Procs, user \in Clients, recipe_id \in SomeRecipeIds, data \in IngredientBodies :
           IngredientPostLookup(p, user, recipe_id, data)
    \/ \E p \in Procs, user \in Clients, recipe_id \in SomeRecipeIds, data \in CommentBodies :
           CommentPostLookup(p, user, recipe_id, data)
    \/ \E p \in Procs : Continue(p)

SpecRejects == Init /\ [][NextRejects]_vars

(***************************************************************************)
(* C16: a create request that is rejected with a validation error (400)    *)
(* has derived no idempotency key: validation comes before the key and the *)
(* lookup.                                                                 *)
(***************************************************************************)
C16_ValidationBeforeKey ==
    \A p \in Procs :
        (Done(p) /\ request[p].kind \in CreateKinds /\ response[p].status = 400)
        => req_uuid[p] = NoUUID

(***************************************************************************)
(* C17: a create request that ends in a validation, not-found,             *)
(* authentication or authorization error leaves the Recipe, Ingredient,    *)
(* RecipeIngredient and Comment tables as they were: the step that answers *)
(* with the error writes nothing, and neither did the request before it    *)
(* (it was at its first step, or had only looked the key up).              *)
(***************************************************************************)
ErrorStatuses == {400, 401, 403, 404}
tables == <<Recipe, Ingredient, RecipeIngredient, Comment>>

C17_Step(p) ==
    (pc[p] # pc'[p] /\ request'[p].kind \in CreateKinds)
    => /\ (pc'[p] = "done" /\ response'[p].status \in ErrorStatuses)
              => (tables' = tables /\ pc[p] \in {"idle", "recipe_insert"})
       /\ pc'[p] = "recipe_insert" => tables' = tables

C17_ErrorsWriteNothing == [][\A p \in Procs : C17_Step(p)]_vars

\* an invalid recipe was rejected in the transaction, an ingredient was
\* refused to a user who is not the author, a comment went to no recipe
C17_Witness ==
    \E p, q, r \in Procs :
        /\ Done(p) /\ request[p].kind = "recipe_create" /\ response[p].status = 400
        /\ Done(q) /\ request[q].kind = "ingredient_add" /\ response[q].status = 403
        /\ Done(r) /\ request[r].kind = "comment_add" /\ response[r].status = 404
        /\ Recipe = LegacyRecipes /\ Ingredient = {} /\ RecipeIngredient = {} /\ Comment = {}

(***************************************************************************)
(* C18: a PUT or DELETE on /recipes/{id}/ by a user who is not the author  *)
(* of the recipe is rejected and leaves the recipe as it was.              *)
(***************************************************************************)
C18_Step(p) ==
    (/\ pc[p] = "idle" /\ pc'[p] = "done"
     /\ request'[p].kind \in {"recipe_put", "recipe_delete"})
    => \A r \in Recipe :
           (r.id = request'[p].pk /\ r.author # request'[p].user)
           => (r \in Recipe' /\ response'[p].status \notin {200, 204})

C18_AuthorOnly == [][\A p \in Procs : C18_Step(p)]_vars

(***************************************************************************)
(* C21: an aggregation of a recipe that has no ingredients, or whose       *)
(* ingredients all have quantity zero, ends without error (201), on a      *)
(* store in which the user's list of the title and its items per           *)
(* (ingredient, recipe) are single; its result holds no item for an empty  *)
(* recipe and items of quantity zero otherwise.                            *)
(***************************************************************************)
ZeroOrEmpty(recipe_id) ==
    \A ri \in RecipeIngredient : ri.recipe = recipe_id => ri.quantity = 0

C21_EmptyAndZeroSucceed ==
    \A p \in Procs :
        (/\ Done(p) /\ request[p].kind = "add_recipe"
         /\ local[p].recipe # 0 /\ ZeroOrEmpty(local[p].recipe)
         /\ Cardinality(ListsOf(request[p].user, local[p].title)) = 1
         /\ C13_OneItemPerPair)
        => /\ response[p].status = 201
           /\ \A i \in response[p].body : i.quantity = 0

(***************************************************************************)
(* C22: the re-fetch by key runs only after a violation of the key's       *)
(* unique constraint, and when it has run the request was answered with a  *)
(* row; an insert that failed on another constraint is never re-fetched.   *)
(***************************************************************************)
RefetchSteps == {"recipe_refetch", "ingredient_refetch", "comment_refetch"}

C22_OnlyUniqueRecovers ==
    \A p \in Procs :
        /\ pc[p] \in RefetchSteps => integrity_error[p] = "unique"
        /\ (Done(p) /\ integrity_error[p] # "none")
               => (integrity_error[p] = "unique" /\ Succeeded(p))

(***************************************************************************)
(* C23: an ingredient addition that ends without its RecipeIngredient row  *)
(* (with an error) leaves no Ingredient row that it created: the           *)
(* get-or-create of the Ingredient and the insert of the RecipeIngredient  *)
(* persist together or not at all.                                         *)
(***************************************************************************)
C23_IngredientWithItsRow ==
    \A p \in Procs :
        (Done(p) /\ request[p].kind = "ingredient_add" /\ ~Succeeded(p))
        => local[p].created \cap Ingredient = {}

(***************************************************************************)
(* C24: an aggregation request that fails leaves the ShoppingList and      *)
(* ShoppingListItem tables as they were before it: the step that ends it   *)
(* with an error writes no item, and no list the request created remains.  *)
(***************************************************************************)
C24_Step(p) ==
    (/\ pc[p] # "done" /\ pc'[p] = "done"
     /\ request'[p].kind = "add_recipe" /\ response'[p].status = 500)
    => /\ ShoppingListItem' = ShoppingListItem
       /\ local[p].list_created => \A l \in ShoppingList' : l.id # local[p].shopping_list

C24_AllOrNothing == [][\A p \in Procs : C24_Step(p)]_vars

(***************************************************************************)
(* C25: an ingredient addition by the recipe's author whose name, quantity *)
(* or unit is absent or empty, the quantity also when it is an empty or    *)
(* non-numeric string, is answered with the validation error 400 and not   *)
(* with a server error, and has derived no key and stored no row.          *)
(***************************************************************************)
Incomplete(data) ==
    \/ StripOrEmpty(Get(data.name)) = <<>>
    \/ StripOrEmpty(Get(data.unit)) = <<>>
    \/ Get(data.quantity) = Null
    \/ FloatRaises(Get(data.quantity))

C25_IncompleteIsRejected ==
    \A p \in Procs :
        (/\ Done(p) /\ request[p].kind = "ingredient_add"
         /\ response[p].status \notin {401, 403, 404}
         /\ Incomplete(request[p].data))
        => (response[p].status = 400 /\ req_uuid[p] = NoUUID)

(***************************************************************************)
(* C26: a request to add or to delete an ingredient of a recipe by a user  *)
(* who is not the recipe's author is answered 403 without a row and        *)
(* leaves RecipeIngredient as it is; every row such a request inserts or   *)
(* deletes is a row of the recipe named in the path, whose author is the   *)
(* requesting user.                                                        *)
(***************************************************************************)
IngredientKinds == {"ingredient_add", "ingredient_delete"}

C26_Step(p) ==
    (pc[p] # pc'[p] /\ request'[p].kind \in IngredientKinds)
    => /\ \A r \in Recipe :
              (pc[p] = "idle" /\ r.id = request'[p].recipe_id /\ r.author # request'[p].user)
              => /\ pc'[p] = "done"
                 /\ response'[p] = [status |-> 403, id |-> 0, body |-> <<>>]
                 /\ RecipeIngredient' = RecipeIngredient
       /\ \A row \in (RecipeIngredient' \ RecipeIngredient) \cup (RecipeIngredient \ RecipeIngredient') :
              /\ row.recipe = request'[p].recipe_id
              /\ \E r \in Recipe : r.id = row.recipe /\ r.author = request'[p].user

C26_AuthorOnlyIngredients == [][\A p \in Procs : C26_Step(p)]_vars

\* the author added a row; another user who sent the same body and who asked
\* to delete the row was refused both times, and the row is there
C26_Witness ==
    \E p, q, d \in Procs : \E row \in RecipeIngredient :
        /\ Done(p) /\ request[p].kind = "ingredient_add" /\ response[p].status = 201
        /\ response[p].id = row.id
        /\ Done(q) /\ request[q].kind = "ingredient_add" /\ request[q].user # request[p].user
        /\ request[q].recipe_id = request[p].recipe_id /\ request[q].data = request[p].data
        /\ response[q].status = 403
        /\ Done(d) /\ request[d].kind = "ingredient_delete" /\ request[d].user # request[p].user
        /\ request[d].recipe_id = row.recipe /\ request[d].pk = row.id
        /\ response[d].status = 403

(***************************************************************************)
(* C27: in every interleaving of ingredient additions that name the same   *)
(* ingredient, no two Ingredient rows share a name; a request that leaves  *)
(* get_or_create holds the id of the one row of its name, and none ends    *)
(* there with an error, also when another request created the row between *)
(* its get and its create.                                                 *)
(***************************************************************************)
NameOf(p) == StripOrEmpty(Get(request[p].data.name))
GetOrCreateSteps == {"ingredient_get_or_create", "ingredient_create"}

C27_Step(p) ==
    (pc[p] # pc'[p] /\ pc[p] \in GetOrCreateSteps)
    => /\ pc'[p] \in {"ingredient_create", "ingredient_insert"}
       /\ pc'[p] = "ingredient_insert"
              => /\ Cardinality({i \in Ingredient' : i.name = NameOf(p)}) = 1
                 /\ \E i \in Ingredient' : i.name = NameOf(p) /\ i.id = ingredient'[p]

C27_OneIngredientPerName ==
    [][/\ \A i, j \in Ingredient' : i.name = j.name => i.id = j.id
       /\ \A p \in Procs : C27_Step(p)]_vars

\* q found no row of the name, then p created it: the create of q will meet
\* the unique constraint
C27_Witness ==
    \E p, q \in Procs :
        /\ p # q /\ local[p].created # {} /\ local[p].created \subseteq Ingredient
        /\ pc[q] = "ingredient_create" /\ NameOf(q) = NameOf(p)
        /\ NameTaken(NameOf(q))

(***************************************************************************)
(* C28: a pass of the aggregation loop that finds the item of the list for *)
(* (ingredient, recipe) writes the item with the recipe ingredient's unit  *)
(* and with its quantity increased by the scaled quantity; a pass that     *)
(* finds none inserts an item with the scaled quantity, the ingredient's   *)
(* unit and is_purchased = FALSE.                                          *)
(***************************************************************************)
Scaled(p, ri) == Multiply(request[p].data)[2] * ri.quantity

C28_Step(p) ==
    LET ri == Head(local[p].recipe_ings)
        got == {i \in Visible(p) : /\ i.shopping_list = local[p].shopping_list
                                   /\ i.ingredient = ri.ingredient
                                   /\ i.recipe = local[p].recipe}
    IN /\ (pc[p] = "add_recipe_item" /\ <<pc'[p], local'[p]>> # <<pc[p], local[p]>>)
              => IF got = {}
                 THEN pc'[p] = "add_recipe_item_create"
                 ELSE \A i \in got : \E u \in local'[p].updated :
                          /\ u.id = i.id /\ u.unit = ri.unit
                          /\ u.quantity = i.quantity + Scaled(p, ri)
       /\ (pc[p] = "add_recipe_item_create" /\ pc'[p] # pc[p])
              => \E row \in local'[p].created \ local[p].created :
                     /\ row.shopping_list = local[p].shopping_list
                     /\ row.ingredient = ri.ingredient /\ row.recipe = local[p].recipe
                     /\ row.quantity = Scaled(p, ri) /\ row.unit = ri.unit
                     /\ row.is_purchased = FALSE

C28_MergeAddsInsertScales == [][\A p \in Procs : C28_Step(p)]_vars

(***************************************************************************)
(* C29: no response to a user carries the ingredients of a private recipe  *)
(* of another user; here, the items an aggregation returns (ingredient,    *)
(* quantity and unit of each RecipeIngredient row of the recipe).          *)
(***************************************************************************)
PrivateTo(user) == {r \in Recipe : ~r.is_public /\ r.author # user}

C29_PrivateIngredientsHidden ==
    \A p \in Procs :
        (Done(p) /\ request[p].kind = "add_recipe" /\ response[p].status = 201)
        => \A r \in PrivateTo(request[p].user) : \A i \in response[p].body : i.recipe # r.id

(***************************************************************************)
(* Recipes that are created, updated by PUT and PATCH, and deleted.        *)
(***************************************************************************)
\* PATCH bodies: the title alone, the visibility alone
NoRecipeField == [title |-> Absent, description |-> Absent, is_public |-> Absent]
RecipePatchBodies ==
    {[NoRecipeField EXCEPT !.title = Str(<<"Stew">>)],
     [NoRecipeField EXCEPT !.is_public = Bool(FALSE)]}

NextUpdates ==
    \/ \E p \in Procs, user \in Users : RecipeCreateLookup(p, user, Soup)
    \/ \E p \in Procs : RecipeCreateInsert(p)
    \/ \E p \in Procs : RecipeCreateRefetch(p)
    \/ \E p \in Procs, user \in Users, pk \in RecipeIds : RecipeUpdate(p, user, pk, Stew, FALSE)
    \/ \E p \in Procs, user \in Users, pk \in RecipeIds, data \in RecipePatchBodies :
           RecipeUpdate(p, user, pk, data, TRUE)
    \/ \E p \in Procs, user \in Users, pk \in RecipeIds : RecipeDestroy(p, user, pk)

SpecUpdates == Init /\ [][NextUpdates]_vars

(***************************************************************************)
(* C30: no step changes the request_uuid of a stored recipe, and a create  *)
(* request whose key is the key a stored recipe was inserted with is       *)
(* answered 200 with that recipe, whatever PUT and PATCH requests have     *)
(* changed the recipe since.                                               *)
(***************************************************************************)
UpdateKinds == {"recipe_put", "recipe_patch"}

C30_Step(p) ==
    (pc[p] = "idle" /\ request'[p].kind = "recipe_create")
    => \A r \in Recipe :
           <<"Recipe", r.id, RecipeUUID(request'[p].user, request'[p].data)>> \in inserted
           => /\ pc'[p] = "done"
              /\ response'[p].status = 200 /\ response'[p].id = r.id

C30_KeyNeverChanges ==
    [][/\ \A r \in Recipe : \A n \in Recipe' : n.id = r.id => n.request_uuid = r.request_uuid
       /\ \A p \in Procs : C30_Step(p)]_vars

\* a recipe was created, then renamed by a PATCH, and the create request,
\* sent again after it, was answered with the renamed recipe
C30_Witness ==
    \E c, u, p \in Procs : \E r \in Recipe :
        /\ c < u /\ u < p
        /\ Done(c) /\ request[c].kind = "recipe_create" /\ response[c].status = 201
        /\ r.id = response[c].id /\ r.request_uuid = req_uuid[c]
        /\ Done(u) /\ request[u].kind \in UpdateKinds /\ response[u].status = 200
        /\ request[u].pk = r.id /\ r.title = <<"Stew">> /\ r.updated_at > 0
        /\ Done(p) /\ request[p].kind = "recipe_create" /\ request[p] = request[c]
        /\ response[p].status = 200 /\ response[p].id = r.id

(***************************************************************************)
(* C31: every step of an aggregation keeps, for each item that is stored,  *)
(* its purchased flag, list, ingredient and recipe, also when the loop     *)
(* found the item and took the merge branch; it leaves every item that is  *)
(* not keyed by (target list, an ingredient of the recipe, the recipe) as  *)
(* it is, and every item it adds has such a key.                           *)
(***************************************************************************)
Keyed(p, i) ==
    /\ i.shopping_list = local'[p].shopping_list
    /\ i.recipe = local'[p].recipe
    /\ \E ri \in RecipeIngredient : ri.recipe = i.recipe /\ ri.ingredient = i.ingredient

C31_Step(p) ==
    (<<pc'[p], local'[p]>> # <<pc[p], local[p]>> /\ request'[p].kind = "add_recipe")
    => /\ \A i \in ShoppingListItem : \E j \in ShoppingListItem' :
              /\ j.id = i.id /\ j.is_purchased = i.is_purchased
              /\ j.shopping_list = i.shopping_list
              /\ j.ingredient = i.ingredient /\ j.recipe = i.recipe
              /\ ~Keyed(p, i) => j = i
       /\ \A j \in ShoppingListItem' :
              (\A i \in ShoppingListItem : i.id # j.id) => Keyed(p, j)

Fresh(before, after) == {n \in after : \A o \in before : o.id # n.id}

\* C32: in every step, a Recipe row that enters the table has as author the
\* user of the request that took the step, a Comment row that enters the
\* table has that user as its user, and every row that stays in its table
\* keeps its author or user, whoever took the step
C32_Step(p) ==
    /\ pc'[p] # pc[p]
       => /\ \A r \in Fresh(Recipe, Recipe') : r.author = request'[p].user
          /\ \A c \in Fresh(Comment, Comment') : c.user = request'[p].user
    /\ \A r \in Recipe : \A n \in Recipe' : n.id = r.id => n.author = r.author
    /\ \A c \in Comment : \A n \in Comment' : n.id = c.id => n.user = c.user

C32_AuthorStays == [][\A p \in Procs : C32_Step(p)]_vars

\* a recipe created by one user was updated by another user's PUT and still
\* has its creator as author, and a comment created by a third request has
\* that request's user as its user
C32_Witness ==
    \E c, u, m \in Procs : \E r \in Recipe, k \in Comment :
        /\ Done(c) /\ Done(u) /\ Done(m)
        /\ request[c].kind = "recipe_create" /\ response[c].status = 201
        /\ <<"Recipe", r.id, r.request_uuid>> \in inserted
        /\ r.id = response[c].id /\ r.author = request[c].user
        /\ request[u].kind = "recipe_put" /\ response[u].status = 200
        /\ request[u].pk = r.id /\ request[u].user # r.author
        /\ r.updated_at > 0
        /\ request[m].kind = "comment_add" /\ response[m].status = 201
        /\ k.id = response[m].id /\ k.user = request[m].user
        /\ <<"Comment", k.id, k.request_uuid>> \in inserted

====
